---- MODULE Spec2Model ----
(***************************************************************************)
(* A model of the EmailSearcher index: tokenizer, postings writer, the     *)
(* PATRICIA directory trie and its mover, the nested-tar archiver and the  *)
(* two searchers.                                                          *)
(*                                                                         *)
(* Strings are sequences of one-character strings; a filesystem path below *)
(* the index root is the sequence of its component names, so the index     *)
(* root itself is << >>.                                                   *)
(***************************************************************************)
EXTENDS Naturals, Integers, Sequences, FiniteSets, TLC

VARIABLES
    platform,   \* "posix" or "nt": decides pathlib's Path.is_reserved
    corpus,     \* searchdir: source file name -> its text
    pc,         \* where the orchestrator (__main__.analyze / index_directory) is
    tokstate,   \* per corpus file: state of its broadcast_tokens pool task
    tokens,     \* index_directory.tokens: the token universe collected so far
    ntokens,    \* index_directory.ntokens
    nexamined,  \* index_directory.nexamined
    writeQ,     \* the (path, tokens) queue, with the in-band sentinel
    progressQ,  \* npatriciarized_token_q: number of 1s waiting in it
    tasks,      \* index_tokenset pool tasks: first letter -> call stack
    registered, \* history: path concatenations for which a 1 was put on progressQ
    dirs,       \* directories existing at or below the index root (inddir)
    indfiles,   \* regular files of the trie: [dir, name, text]
    tmpdir,     \* the staging directory: [exists, files: file name -> text]
    movers,     \* transfer pool tasks: staged file name -> state
    wlock,      \* writer_lock: 0 when free, else the writer holding it
    wr,         \* writer processes: main-thread state of each
    polls,      \* poll threads: <<writer, thread>> -> state
    flushes,    \* flush thread-pool tasks of each writer
    threshold,  \* writer.threshold
    ncpu,       \* cpu_count()
    crashed,    \* an exception reached the orchestrator
    trie0,      \* history: the trie as it was when index_directory returned
    arch,       \* tar files on disk while archiving: path of the directory ->
                \* [ext, members]
    atasks,     \* PatriciaArchiver._archive walks in progress
    archive_path, \* <archdir>/<name><ext>: [exists, ext, members]
    archopts,   \* the arguments of PatriciaArchiver.archive: [compression, fast]
    res,        \* the last search call and what it returned
    unreadable  \* the corpus files whose read_text raises OSError

vars == <<platform, corpus, pc, tokstate, tokens, ntokens, nexamined, writeQ,
          progressQ, tasks, registered, dirs, indfiles, tmpdir, movers, wlock,
          wr, polls, flushes, threshold, ncpu, crashed, trie0, arch, atasks,
          archive_path, archopts, res, unreadable>>

cfgVars    == <<platform, corpus, threshold, ncpu, unreadable>>
orchVars   == <<pc, tokstate, tokens, ntokens, nexamined, crashed>>
trieVars   == <<tasks, registered, dirs, progressQ>>
writerVars == <<wlock, wr, polls, flushes>>
moveVars   == <<indfiles, movers, trie0>>
archVars   == <<arch, atasks, archive_path, archopts>>

-----------------------------------------------------------------------------
(* Strings *)

Range(s) == {s[i] : i \in 1..Len(s)}

Take(s, n) == SubSeq(s, 1, n)           \* s[:n]

Drop(s, n) == SubSeq(s, n + 1, Len(s))  \* s[n:]

startswith(s, p) == Len(p) <= Len(s) /\ Take(s, Len(p)) = p

endswith(s, p) == Len(p) <= Len(s) /\ Drop(s, Len(s) - Len(p)) = p

Min(S) == CHOOSE x \in S : \A y \in S : x <= y

Max(S) == CHOOSE x \in S : \A y \in S : y <= x

\* ord(c) of the characters the model uses
Ord ==
    [c \in {" ", "!", ",", ".", "2", "A", "B", "G", "M", "_", "a", "b", "d", "e", "f",
             "g", "i", "l", "m", "n", "o", "r", "t", "v", "w", "x", "z", "\t"} |->
        CASE c = "\t" -> 9  [] c = " " -> 32 [] c = "," -> 44 [] c = "." -> 46
          [] c = "2" -> 50  [] c = "x" -> 120
          [] c = "!" -> 33  [] c = "G" -> 71  [] c = "M" -> 77 [] c = "e" -> 101
          [] c = "f" -> 102 [] c = "l" -> 108 [] c = "m" -> 109 [] c = "o" -> 111
          [] c = "v" -> 118 [] c = "w" -> 119
          [] c = "A" -> 65  [] c = "B" -> 66 [] c = "_" -> 95 [] c = "a" -> 97
          [] c = "b" -> 98  [] c = "d" -> 100 [] c = "g" -> 103 [] c = "i" -> 105
          [] c = "n" -> 110 [] c = "r" -> 114 [] c = "t" -> 116 [] c = "z" -> 122]

\* s < t in Python's string order
StrLess(s, t) ==
    \E k \in 0..Len(s) :
        /\ k <= Len(t)
        /\ Take(s, k) = Take(t, k)
        /\ \/ k = Len(s) /\ k < Len(t)
           \/ k < Len(s) /\ k < Len(t) /\ Ord[s[k + 1]] < Ord[t[k + 1]]

StrMin(S) == CHOOSE s \in S : \A t \in S : t = s \/ StrLess(s, t)

StrMax(S) == CHOOSE s \in S : \A t \in S : t = s \/ StrLess(t, s)

\* a set of strings in an order that is not sorted's: last to first
RECURSIVE listed(_)
listed(S) == IF S = {} THEN << >> ELSE <<StrMax(S)>> \o listed(S \ {StrMax(S)})

\* sorted(S) for a set of strings
RECURSIVE sorted(_)
sorted(S) == IF S = {} THEN << >> ELSE <<StrMin(S)>> \o sorted(S \ {StrMin(S)})

\* the common prefix cut after its first character
firstchar(m) ==
    IF m = {} \/ << >> \in m \/ (\E s \in m, t \in m : s[1] # t[1]) THEN << >>
    ELSE Take(StrMin(m), 1)

\* os.path.commonprefix: compare min and max of the list, character by character
commonprefix(m) ==
    IF m = {} THEN << >>
    ELSE LET s1 == StrMin(m)
             s2 == StrMax(m)
             diff == {i \in 1..Len(s1) : i > Len(s2) \/ s1[i] # s2[i]}
         IN  IF diff = {} THEN s1 ELSE Take(s1, Min(diff) - 1)

\* str.find(c): 0-based index of the first occurrence, -1 when there is none
find(s, c) ==
    LET at == {i \in 1..Len(s) : s[i] = c}
    IN  IF at = {} THEN 0 - 1 ELSE Min(at) - 1

rfind(s, c) ==
    LET at == {i \in 1..Len(s) : s[i] = c}
    IN  IF at = {} THEN 0 - 1 ELSE Max(at) - 1

\* str.strip(c)
RECURSIVE strip(_, _)
strip(s, c) ==
    IF Len(s) > 0 /\ s[1] = c THEN strip(Drop(s, 1), c)
    ELSE IF Len(s) > 0 /\ s[Len(s)] = c THEN strip(Take(s, Len(s) - 1), c)
    ELSE s

\* pathlib: PurePath.suffix and PurePath.stem of a file name
suffix(name) ==
    LET i == rfind(name, ".")
    IN  IF 0 < i /\ i < Len(name) - 1 THEN Drop(name, i) ELSE << >>

stem(name) ==
    LET i == rfind(name, ".")
    IN  IF 0 < i /\ i < Len(name) - 1 THEN Take(name, i) ELSE name

\* pathlib: PurePath.suffixes, first to last
RECURSIVE split_dots(_)
split_dots(s) ==
    LET i == find(s, ".")
    IN  IF i < 0 THEN <<s>> ELSE <<Take(s, i)>> \o split_dots(Drop(s, i + 1))

suffixes(name) ==
    IF Len(name) > 0 /\ name[Len(name)] = "." THEN << >>
    ELSE LET segs == split_dots(strip(name, "."))  \* lstrip: names here never end in "."
         IN  [i \in 1..(Len(segs) - 1) |-> <<".">> \o segs[i + 1]]

-----------------------------------------------------------------------------
(* utility/tokenutils.py *)

punctuation == {"!", ",", ".", "_"}

isspace(c) == c \in {" ", "\t"}

\* "NUL" stands for a character that is neither printable nor whitespace
isprintable(c) == c \notin {"\t", "NUL"}

\* a character left in its case
asis(c) == c

casefold(c) ==
    CASE c = "A" -> "a" [] c = "B" -> "b" [] c = "G" -> "g" [] c = "M" -> "m" [] OTHER -> c

\* a string left in one piece
whole(s) == <<s>>

\* str.split(): the maximal runs of non-whitespace characters, in order
RECURSIVE split(_)
split(s) ==
    IF s = << >> THEN << >>
    ELSE IF isspace(s[1]) THEN split(Drop(s, 1))
    ELSE LET stops == {i \in 1..Len(s) : isspace(s[i])}
             n == IF stops = {} THEN Len(s) ELSE Min(stops) - 1
         IN  <<Take(s, n)>> \o split(Drop(s, n))

as_tokens(text, unique) ==
    LET kept == SelectSeq(text, LAMBDA c : isspace(c) \/ isprintable(c))
        translated == [i \in 1..Len(kept) |->
                          IF kept[i] \in punctuation THEN " " ELSE kept[i]]
        folded == [i \in 1..Len(translated) |-> casefold(translated[i])]
        toks == split(folded)
    IN  IF unique THEN Range(toks) ELSE toks

tokenize(filepath) == as_tokens(corpus[filepath], TRUE)

-----------------------------------------------------------------------------
(* utility/osutils.py *)

\* Python's None where a path is expected
None == << <<"None">> >>

\* The lower-cased reserved device names of a Windows-family system.  The
\* model's alphabet is {a, b}: the two-letter name "ab" stands for CON, PRN,
\* AUX, NUL, COM1.., LPT1.. (pathlib upper-cases the component and looks it
\* up in its table; no reserved name has a single character).
reserved_names == {<<"a", "b">>}

\* Path.is_reserved(): always False on POSIX; on Windows the last component
is_reserved(path) ==
    platform = "nt" /\ path # << >> /\ path[Len(path)] \in reserved_names

parent(path) == Take(path, Len(path) - 1)

\* path / name: pathlib drops an empty segment
join(path, name) == IF name = << >> THEN path ELSE Append(path, name)

\* a path left as it is
unguarded(path) == path

RECURSIVE safeguard_path(_)
safeguard_path(path) ==
    IF ~is_reserved(path) THEN path
    ELSE LET st == path[Len(path)]  \* safepath.stem: a token fragment has no dot
         IN  safeguard_path(join(Append(parent(path), Take(st, 1)), Drop(st, 1)))

\* the names of the sub-directories of curr in the directory set D
listdirs(D, curr) ==
    {p[Len(p)] : p \in {q \in D : Len(q) = Len(curr) + 1 /\ Take(q, Len(curr)) = curr}}

\* patricia_path's loop over os.walk, from the turn at directory curr on (the
\* walk descends into dirs[0], the only entry left); patricia_turn is the
\* branch of a turn for a non-empty dirs, with dirs[0] and cp
RECURSIVE patricia_walk(_, _, _, _, _)
patricia_turn(D, curr, token, d0, cp) ==
    LET tok == IF cp # token THEN Drop(token, Len(cp)) ELSE << >>
        base == curr \o safeguard_path(<<cp>>)
    IN  IF cp # d0
        THEN [target |-> safeguard_path(join(base, tok)),
              closest |-> Append(curr, d0),
              correction |-> safeguard_path(join(base, Drop(d0, Len(cp))))]
        ELSE patricia_walk(D, Append(curr, d0), tok, safeguard_path(join(base, tok)),
                           Append(curr, d0))

\* a filter that leaves no entry in dirs
nodirs(D, curr, token) == << >>

\* dirs[0] after "dirs[:] = [d for d in dirs if d[0] == token[0]]", or the
\* empty string when no entry is left
dirs0(D, curr, token) ==
    LET ds == {d \in listdirs(D, curr) : d[1] = token[1]}
    IN  IF ds = {} THEN << >> ELSE CHOOSE d \in ds : TRUE

patricia_dirs(D, curr, token, d0) ==
    IF d0 # << >>
    THEN patricia_turn(D, curr, token, d0, commonprefix({token, d0}))
    ELSE [target |-> safeguard_path(Append(curr, token)),
          closest |-> curr, correction |-> None]

patricia_walk(D, curr, token, target, closest) ==
    IF token = << >>
    THEN [target |-> target, closest |-> closest, correction |-> None]
    ELSE patricia_dirs(D, curr, token, dirs0(D, curr, token))

\* patricia_path(token, root) where D is the set of directories under root
patricia_path(token, D) ==
    IF << >> \notin D \/ token = << >>
    THEN [target |-> None, closest |-> None, correction |-> None]
    ELSE patricia_walk(D, << >>, token, None, None)

-----------------------------------------------------------------------------
(* The files of the model and the pools *)

\* a staging file for every first letter instead of every token
byinitial(token) == <<token[1], "_", ".", "i", "n", "d">>

\* "<token>_.ind"
indname(token) == token \o <<"_", ".", "i", "n", "d">>

\* every directory os.makedirs(path, exist_ok=True) leaves in existence
makedirs(path) == {Take(path, n) : n \in 0..Len(path)}

\* the token a trie path spells: its component names, concatenated
RECURSIVE spelled(_)
spelled(path) == IF path = << >> THEN << >> ELSE path[1] \o spelled(Drop(path, 1))

\* the (path, tokens) record broadcast_tokens builds for a corpus file
record(f) == [src |-> f, toks |-> tokenize(f)]

sentinel == [src |-> "None", toks |-> {}]

nobody == [kind |-> "none", id |-> 0]

\* a writer process before its pool task starts
writer0 ==
    [pc |-> "idle", pendingwrites |-> << >>, objs |-> << >>, nwaiting |-> 0,
     greenlight |-> TRUE, npop |-> 0, args |-> << >>]

poll0 == [pc |-> "idle", src |-> "None", toks |-> {}, nentries |-> 0, left |-> 0,
          token |-> << >>, obj |-> 0]

\* cpu_count() // 2: the number of writer processes, and of poll threads in each
nwriters == ncpu \div 2

Writers == 1..nwriters

PollIds == {<<w, p>> : w \in Writers, p \in 1..nwriters}

\* processes of Pool() not held by a writer that is still running
freeprocs ==
    ncpu - Cardinality({w \in Writers : wr[w].pc \notin {"idle", "done", "raised"}})

-----------------------------------------------------------------------------
(* core/indexer.py: index_tokenset *)

\* Returns of calls that have nothing left to do: a call in its while loop
\* with an empty token set, or a fresh call on an empty set.
RECURSIVE unwind(_)
unwind(stack) ==
    IF stack # << >> /\ stack[Len(stack)].tokenset = {}
    THEN unwind(Take(stack, Len(stack) - 1))
    ELSE stack

\* a builder that reports no directory as a token
never(cp, tokenset) == FALSE

\* a builder that reports every directory it makes as a token
always(cp, tokenset) == TRUE

\* index_tokenset: "cp in tokenset", the test before npatriciarized_token_q.put(1)
registers(cp, tokenset) == cp \in tokenset

\* a call that hands down the residual of every token, the one of cp too
keeping(gen, root) ==
    LET cp == commonprefix(gen)
        newroot == safeguard_path(Append(root, cp))
    IN  [newroot  |-> newroot,
         leaf     |-> registers(cp, gen),
         frame    |-> [tokenset |-> {Drop(t, Len(cp)) : t \in gen},
                       root |-> newroot, inloop |-> FALSE]]

\* The frames left after the call index_tokenset(gen, root) has created its
\* directory: the callee's own recursive call is a tail call.
callee(gen, root) ==
    LET cp == commonprefix(gen)
        newroot == safeguard_path(Append(root, cp))
    IN  [newroot  |-> newroot,
         leaf     |-> registers(cp, gen),
         frame    |-> [tokenset |-> {Drop(t, Len(cp)) : t \in gen \ {cp}},
                       root |-> newroot, inloop |-> FALSE]]

\* a loop that leaves the tokens that begin like nextTok in tokenset
single(tokenset, nextTok) == {nextTok}

\* index_tokenset's loop: nextTok and the tokens that begin like it
nextGen(tokenset, nextTok) == {t \in tokenset : t[1] = nextTok[1]}

\* One run of an index_tokenset task up to and including its next
\* os.makedirs (and the progress put that follows it); nextTok is the element
\* tokenset.pop() returns when the running call is in its while loop.
index_tokenset(c, nextTok) ==
    LET stack == tasks[c].stack
        top == stack[Len(stack)]
        cp == commonprefix(top.tokenset)
        direct == ~top.inloop /\ cp # << >>
        gen == IF direct THEN top.tokenset ELSE nextGen(top.tokenset, nextTok)
        call == callee(gen, top.root)
        below == IF direct THEN Take(stack, Len(stack) - 1)
                 ELSE [stack EXCEPT ![Len(stack)] =
                          [tokenset |-> top.tokenset \ gen,
                           root |-> top.root, inloop |-> TRUE]]
    IN  /\ dirs' = dirs \cup makedirs(call.newroot)
        /\ progressQ' = IF call.leaf THEN progressQ + 1 ELSE progressQ
        /\ registered' = IF call.leaf
                         THEN registered \cup {spelled(call.newroot)}
                         ELSE registered
        /\ tasks' = [tasks EXCEPT ![c] =
                        [started |-> TRUE,
                         stack |-> unwind(Append(below, call.frame))]]

\* index_tokenset(tokenset, root) run to its end by one process: the
\* directories it makes.  The order in which the while loop pops its tokens
\* does not matter: each turn takes the whole group of one first character.
RECURSIVE grown(_, _)
grown(tokenset, root) ==
    IF tokenset = {} THEN {}
    ELSE IF commonprefix(tokenset) # << >>
    THEN makedirs(callee(tokenset, root).newroot)
            \cup grown(callee(tokenset, root).frame.tokenset, callee(tokenset, root).newroot)
    ELSE UNION {grown(nextGen(tokenset, nextTok), root) : nextTok \in tokenset}

TaskRunning(c) == tasks[c].started /\ tasks[c].stack # << >>

TaskStep(c) ==
    /\ pc \in {"build_outer", "build_inner"}
    /\ c \in DOMAIN tasks
    /\ tasks[c].stack # << >>
    /\ \/ tasks[c].started
       \/ Cardinality({d \in DOMAIN tasks : TaskRunning(d)}) < freeprocs
    /\ \E nextTok \in tasks[c].stack[Len(tasks[c].stack)].tokenset :
           index_tokenset(c, nextTok)
    /\ UNCHANGED <<cfgVars, orchVars, writerVars, moveVars, archVars,
                   writeQ, tmpdir, res>>

-----------------------------------------------------------------------------
(* core/indexer.py: writer *)

\* pendingwrites is a dict: its keys in insertion order, each with the id of
\* its IndFile object in objs
haskey(w, token) == \E i \in 1..Len(wr[w].pendingwrites) : wr[w].pendingwrites[i].tok = token

lookup(w, token) ==
    wr[w].pendingwrites[CHOOSE i \in 1..Len(wr[w].pendingwrites) :
                            wr[w].pendingwrites[i].tok = token].id

\* pendingwrites[token] = id
setitem(d, token, id) ==
    IF \E i \in 1..Len(d) : d[i].tok = token
    THEN [i \in 1..Len(d) |-> IF d[i].tok = token THEN [tok |-> token, id |-> id] ELSE d[i]]
    ELSE Append(d, [tok |-> token, id |-> id])

\* polls.ready()
pollsready(w) == \A p \in 1..nwriters : polls[<<w, p>>].pc \in {"done", "raised"}

\* threads of the writer's ThreadPool() that run a poll or a flush
busythreads(w) ==
    Cardinality({p \in 1..nwriters : polls[<<w, p>>].pc \notin {"idle", "done", "raised"}})
    + Cardinality({k \in 1..Len(flushes[w]) :
                       flushes[w][k].pc \in {"open", "newline", "closing"}})

\* writer(): lines 117-126, up to the start of the poll threads
WriterStart(w) ==
    /\ pc # "start"
    /\ wr[w].pc = "idle"
    /\ wr' = [wr EXCEPT ![w].pc = "loop"]
    /\ polls' = [id \in DOMAIN polls |->
                    IF id[1] = w THEN [polls[id] EXCEPT !.pc = "get"] ELSE polls[id]]
    /\ tmpdir' = [tmpdir EXCEPT !.exists = TRUE]
    /\ UNCHANGED <<cfgVars, orchVars, trieVars, moveVars, archVars, writeQ, wlock,
                   flushes, res>>

\* poll: request := writeQ.get()
PollGet(w, p) ==
    LET id == <<w, p>> IN
    /\ polls[id].pc = "get"
    /\ writeQ # << >>
    /\ writeQ' = Tail(writeQ)
    /\ polls' = [polls EXCEPT ![id] =
                    IF Head(writeQ) = sentinel
                    THEN [@ EXCEPT !.pc = "repost"]
                    ELSE [@ EXCEPT !.pc = IF Head(writeQ).toks = {} THEN "count" ELSE "wait",
                                   !.src = Head(writeQ).src,
                                   !.toks = Head(writeQ).toks,
                                   !.nentries = Cardinality(Head(writeQ).toks),
                                   !.left = Cardinality(Head(writeQ).toks)]]
    /\ UNCHANGED <<cfgVars, orchVars, trieVars, moveVars, archVars, tmpdir, wlock,
                   wr, flushes, res>>

\* poll: writeQ.put(sentinel), and the thread returns
PollRepost(w, p) ==
    LET id == <<w, p>> IN
    /\ polls[id].pc = "repost"
    /\ writeQ' = Append(writeQ, sentinel)
    /\ polls' = [polls EXCEPT ![id].pc = "done"]
    /\ UNCHANGED <<cfgVars, orchVars, trieVars, moveVars, archVars, tmpdir, wlock,
                   wr, flushes, res>>

\* poll: greenlight.wait() returns
PollWait(w, p) ==
    LET id == <<w, p>> IN
    /\ polls[id].pc = "wait"
    /\ wr[w].greenlight
    /\ polls' = [polls EXCEPT ![id].pc = "setdefault"]
    /\ UNCHANGED <<cfgVars, orchVars, trieVars, moveVars, archVars, writeQ, tmpdir,
                   wlock, wr, flushes, res>>

\* poll: token = request[1].pop(); pendingwrites.setdefault(token, IndFile())
PollSetdefault(w, p) ==
    LET id == <<w, p>> IN
    /\ polls[id].pc = "setdefault"
    /\ \E token \in polls[id].toks :
          LET fresh == Len(wr[w].objs) + 1 IN
          IF haskey(w, token)
          THEN /\ polls' = [polls EXCEPT ![id].pc = "store", ![id].token = token,
                                         ![id].toks = @ \ {token},
                                         ![id].obj = lookup(w, token)]
               /\ wr' = wr
          ELSE /\ polls' = [polls EXCEPT ![id].pc = "store", ![id].token = token,
                                         ![id].toks = @ \ {token},
                                         ![id].obj = fresh]
               /\ wr' = [wr EXCEPT ![w].objs = Append(@, [srcs |-> {}, owner |-> nobody]),
                                   ![w].pendingwrites =
                                       Append(@, [tok |-> token, id |-> fresh])]
    /\ UNCHANGED <<cfgVars, orchVars, trieVars, moveVars, archVars, writeQ, tmpdir,
                   wlock, flushes, res>>

\* poll: pendingwrites[token] = (what setdefault returned)
PollStore(w, p) ==
    LET id == <<w, p>> IN
    /\ polls[id].pc = "store"
    /\ wr' = [wr EXCEPT ![w].pendingwrites = setitem(@, polls[id].token, polls[id].obj)]
    /\ polls' = [polls EXCEPT ![id].pc = "enter"]
    /\ UNCHANGED <<cfgVars, orchVars, trieVars, moveVars, archVars, writeQ, tmpdir,
                   wlock, flushes, res>>

\* poll: "with pendingwrites[token]": the lookup, which raises KeyError when
\* the main thread has popped the entry
PollEnter(w, p) ==
    LET id == <<w, p>> IN
    /\ polls[id].pc = "enter"
    /\ polls' = [polls EXCEPT ![id] =
                    IF haskey(w, polls[id].token)
                    THEN [@ EXCEPT !.pc = "acquire", !.obj = lookup(w, polls[id].token)]
                    ELSE [@ EXCEPT !.pc = "raised"]]
    /\ UNCHANGED <<cfgVars, orchVars, trieVars, moveVars, archVars, writeQ, tmpdir,
                   wlock, wr, flushes, res>>

\* poll: IndFile.__enter__: access.acquire()
PollAcquire(w, p) ==
    LET id == <<w, p>> IN
    /\ polls[id].pc = "acquire"
    /\ wr[w].objs[polls[id].obj].owner = nobody
    /\ wr' = [wr EXCEPT ![w].objs[polls[id].obj].owner = [kind |-> "poll", id |-> p]]
    /\ polls' = [polls EXCEPT ![id].pc = "add"]
    /\ UNCHANGED <<cfgVars, orchVars, trieVars, moveVars, archVars, writeQ, tmpdir,
                   wlock, flushes, res>>

\* poll: pendingwrites[token].srcs.add(str(request[0])) and IndFile.__exit__;
\* the second lookup raises KeyError when the entry has been popped meanwhile
PollAdd(w, p) ==
    LET id == <<w, p>>
        held == polls[id].obj
    IN
    /\ polls[id].pc = "add"
    /\ IF haskey(w, polls[id].token)
       THEN LET o == lookup(w, polls[id].token) IN
            /\ wr' = [wr EXCEPT ![w].objs =
                        [i \in 1..Len(@) |->
                            [srcs |-> IF i = o THEN @[i].srcs \cup {polls[id].src}
                                      ELSE @[i].srcs,
                             owner |-> IF i = held THEN nobody ELSE @[i].owner]]]
            /\ polls' = [polls EXCEPT ![id].left = @ - 1,
                                      ![id].pc = IF polls[id].left = 1 THEN "count"
                                                 ELSE "wait"]
       ELSE /\ wr' = [wr EXCEPT ![w].objs[held].owner = nobody]
            /\ polls' = [polls EXCEPT ![id].pc = "raised"]
    /\ UNCHANGED <<cfgVars, orchVars, trieVars, moveVars, archVars, writeQ, tmpdir,
                   wlock, flushes, res>>

\* ecaccess is held by the main thread from the threshold test to greenlight.set()
ecfree(w) == wr[w].pc \notin {"popping", "flushing", "reopen"}

\* poll: with ecaccess: nwaiting[0] += nentries
PollCount(w, p) ==
    LET id == <<w, p>> IN
    /\ polls[id].pc = "count"
    /\ ecfree(w)
    /\ wr' = [wr EXCEPT ![w].nwaiting = @ + polls[id].nentries]
    /\ polls' = [polls EXCEPT ![id].pc = "get"]
    /\ UNCHANGED <<cfgVars, orchVars, trieVars, moveVars, archVars, writeQ, tmpdir,
                   wlock, flushes, res>>

\* the flush tasks of one starmap call, from the popped (token, IndFile) pairs
flushtasks(args) ==
    [k \in 1..Len(args) |->
        [tok |-> args[k].tok, id |-> args[k].id, pc |-> "queued", left |-> 0,
         buf |-> << >>]]

RECURSIVE reversed(_)
reversed(s) == IF s = << >> THEN << >> ELSE Append(reversed(Tail(s)), Head(s))

flushed(w) == \A k \in 1..Len(flushes[w]) : flushes[w][k].pc = "closed"

\* a file object that writes its buffer out twice
twice(files, name, buf) ==
    [n \in DOMAIN files \cup {name} |->
        IF n = name
        THEN (IF name \in DOMAIN files THEN files[name] ELSE << >>) \o buf \o buf
        ELSE files[n]]

\* the file's text after appending a buffer to it (mode 'a' creates the file)
appended(files, name, buf) ==
    [n \in DOMAIN files \cup {name} |->
        IF n = name
        THEN (IF name \in DOMAIN files THEN files[name] ELSE << >>) \o buf
        ELSE files[n]]

\* writer main thread: nwaiting[0] > threshold and writer_lock.acquire(blocking=False);
\* greenlight.clear(); the generator's range(len(pendingwrites)) is fixed here
SpillBegin(w) ==
    /\ wr[w].pc = "loop"
    /\ ~pollsready(w)
    /\ wr[w].nwaiting > threshold
    /\ wlock = 0
    /\ wlock' = w
    /\ wr' = [wr EXCEPT ![w].greenlight = FALSE,
                        ![w].npop = Len(wr[w].pendingwrites),
                        ![w].args = << >>,
                        ![w].pc = IF wr[w].pendingwrites = << >> THEN "flushing"
                                  ELSE "popping"]
    /\ flushes' = [flushes EXCEPT ![w] = << >>]
    /\ UNCHANGED <<cfgVars, orchVars, trieVars, moveVars, archVars, writeQ, tmpdir,
                   polls, res>>

\* writer main thread: one pendingwrites.popitem(); after the last one starmap
\* submits the flush tasks
PopItem(w) ==
    LET d == wr[w].pendingwrites
        args == Append(wr[w].args, d[Len(d)])
    IN
    /\ wr[w].pc = "popping"
    /\ wr' = [wr EXCEPT ![w].pendingwrites = Take(d, Len(d) - 1),
                        ![w].args = IF wr[w].npop = 1 THEN << >> ELSE args,
                        ![w].npop = @ - 1,
                        ![w].pc = IF wr[w].npop = 1 THEN "flushing" ELSE "popping"]
    /\ flushes' = [flushes EXCEPT ![w] = IF wr[w].npop = 1 THEN flushtasks(args) ELSE @]
    /\ UNCHANGED <<cfgVars, orchVars, trieVars, moveVars, archVars, writeQ, tmpdir,
                   wlock, polls, res>>

\* flush: "with pending_write, (tmpdir / (token + '_.ind')).open('a') as fl"
FlushOpen(w, k) ==
    LET t == flushes[w][k] IN
    /\ t.pc = "queued"
    /\ busythreads(w) < ncpu
    /\ wr[w].objs[t.id].owner = nobody
    /\ wr' = [wr EXCEPT ![w].objs[t.id].owner = [kind |-> "flush", id |-> k]]
    /\ flushes' = [flushes EXCEPT ![w][k].left = Cardinality(wr[w].objs[t.id].srcs),
                                  ![w][k].pc = IF wr[w].objs[t.id].srcs = {}
                                               THEN "closing" ELSE "open"]
    /\ tmpdir' = [tmpdir EXCEPT !.files = appended(@, indname(t.tok), << >>)]
    /\ UNCHANGED <<cfgVars, orchVars, trieVars, moveVars, archVars, writeQ, wlock,
                   polls, res>>

\* flush: print(str(pending_write.srcs.pop()), file=fl): the path goes to the
\* buffer of the file object
FlushWrite(w, k) ==
    LET t == flushes[w][k] IN
    /\ t.pc = "open"
    /\ \E s \in wr[w].objs[t.id].srcs :
          /\ wr' = [wr EXCEPT ![w].objs[t.id].srcs = @ \ {s}]
          /\ flushes' = [flushes EXCEPT ![w][k].buf = Append(@, s),
                                        ![w][k].pc = "newline"]
    /\ UNCHANGED <<cfgVars, orchVars, trieVars, moveVars, archVars, writeQ, tmpdir,
                   wlock, polls, res>>

\* flush: print's end='\n' goes to the buffer
FlushNewline(w, k) ==
    LET t == flushes[w][k] IN
    /\ t.pc = "newline"
    /\ flushes' = [flushes EXCEPT ![w][k].buf = Append(@, "\n"),
                                  ![w][k].left = @ - 1,
                                  ![w][k].pc = IF t.left = 1 THEN "closing" ELSE "open"]
    /\ UNCHANGED <<cfgVars, orchVars, trieVars, moveVars, archVars, writeQ, tmpdir,
                   wlock, wr, polls, res>>

\* the file object's buffer is full: what it holds is appended to the file
FlushDrain(w, k) ==
    LET t == flushes[w][k] IN
    /\ t.pc \in {"open", "newline"}
    /\ t.buf # << >>
    /\ tmpdir' = [tmpdir EXCEPT !.files = appended(@, indname(t.tok), t.buf)]
    /\ flushes' = [flushes EXCEPT ![w][k].buf = << >>]
    /\ UNCHANGED <<cfgVars, orchVars, trieVars, moveVars, archVars, writeQ, wlock,
                   wr, polls, res>>

\* flush: the with block exits: the file is closed, IndFile.__exit__ releases
FlushClose(w, k) ==
    LET t == flushes[w][k] IN
    /\ t.pc = "closing"
    /\ tmpdir' = [tmpdir EXCEPT !.files = appended(@, indname(t.tok), t.buf)]
    /\ flushes' = [flushes EXCEPT ![w][k].buf = << >>, ![w][k].pc = "closed"]
    /\ wr' = [wr EXCEPT ![w].objs[t.id].owner = nobody]
    /\ UNCHANGED <<cfgVars, orchVars, trieVars, moveVars, archVars, writeQ, wlock,
                   polls, res>>

\* writer main thread: starmap returned; writer_lock.release()
SpillRelease(w) ==
    /\ wr[w].pc = "flushing"
    /\ flushed(w)
    /\ wlock' = 0
    /\ wr' = [wr EXCEPT ![w].pc = "reopen"]
    /\ UNCHANGED <<cfgVars, orchVars, trieVars, moveVars, archVars, writeQ, tmpdir,
                   polls, flushes, res>>

\* writer main thread: nwaiting[0] = 0; greenlight.set(); ecaccess is released
SpillReopen(w) ==
    /\ wr[w].pc = "reopen"
    /\ wr' = [wr EXCEPT ![w].nwaiting = 0, ![w].greenlight = TRUE, ![w].pc = "loop"]
    /\ flushes' = [flushes EXCEPT ![w] = << >>]
    /\ UNCHANGED <<cfgVars, orchVars, trieVars, moveVars, archVars, writeQ, tmpdir,
                   wlock, polls, res>>

\* writer main thread: polls.ready(); "with writer_lock:" and the residue's
\* popitem calls, which no other thread of the writer can see any more
FinalBegin(w) ==
    /\ wr[w].pc = "loop"
    /\ pollsready(w)
    /\ wlock = 0
    /\ wlock' = w
    /\ wr' = [wr EXCEPT ![w].pendingwrites = << >>, ![w].pc = "final"]
    /\ flushes' = [flushes EXCEPT ![w] = flushtasks(reversed(wr[w].pendingwrites))]
    /\ UNCHANGED <<cfgVars, orchVars, trieVars, moveVars, archVars, writeQ, tmpdir,
                   polls, res>>

\* writer main thread: the last starmap returned; the lock is released and the
\* writer task returns, which ends the life of its local objects
FinalEnd(w) ==
    /\ wr[w].pc = "final"
    /\ flushed(w)
    /\ wlock' = 0
    /\ wr' = [wr EXCEPT ![w] = [writer0 EXCEPT !.pc = "done"]]
    /\ flushes' = [flushes EXCEPT ![w] = << >>]
    /\ UNCHANGED <<cfgVars, orchVars, trieVars, moveVars, archVars, writeQ, tmpdir,
                   polls, res>>

-----------------------------------------------------------------------------
(* core/indexer.py: index_directory *)

\* index_directory: processes.starmap_async(writer, ...): cpu_count() // 2
\* writer tasks go to the head of the pool's task queue
StartWriters ==
    /\ pc = "start"
    /\ pc' = "tokenize"
    /\ UNCHANGED <<cfgVars, tokstate, tokens, ntokens, nexamined, crashed, trieVars,
                   writerVars, moveVars, archVars, writeQ, tmpdir, res>>

\* broadcast_tokens(filepath, writeQ, searchdir) in a pool process; when
\* tokenize's read_text raises, nothing is put and the task ends with the error
broadcast_tokens(f) ==
    /\ pc = "tokenize"
    /\ tokstate[f] = "queued"
    /\ \A w \in Writers : wr[w].pc # "idle"
    /\ freeprocs > 0
    /\ writeQ' = IF f \in unreadable THEN writeQ ELSE Append(writeQ, record(f))
    /\ tokstate' = [tokstate EXCEPT ![f] = IF f \in unreadable THEN "raised" ELSE "returned"]
    /\ UNCHANGED <<cfgVars, pc, tokens, ntokens, nexamined, crashed, trieVars,
                   writerVars, moveVars, archVars, tmpdir, res>>

\* index_directory: the set comprehension takes one result from
\* imap_unordered, which re-raises the error of a task that ended with one
Collect(f) ==
    /\ pc = "tokenize"
    /\ tokstate[f] \in {"returned", "raised"}
    /\ IF tokstate[f] = "raised"
       THEN /\ pc' = "crashed"
            /\ crashed' = "OSError"
            /\ UNCHANGED <<tokens, tokstate>>
       ELSE /\ tokens' = tokens \cup tokenize(f)
            /\ tokstate' = [tokstate EXCEPT ![f] = "collected"]
            /\ UNCHANGED <<pc, crashed>>
    /\ UNCHANGED <<cfgVars, ntokens, nexamined, trieVars, writerVars,
                   moveVars, archVars, writeQ, tmpdir, res>>

\* a grouping that gives every group the whole token set
everytoken(toks, c) == toks

\* index_directory: by_first_letter[token[0]], the tokens that begin with c
by_first_letter(toks, c) == {t \in toks : t[1] = c}

\* index_directory: by_first_letter and processes.starmap_async(index_tokenset, ...)
GroupByFirstLetter ==
    /\ pc = "tokenize"
    /\ \A f \in DOMAIN corpus : tokstate[f] = "collected"
    /\ ntokens' = Cardinality(tokens)
    /\ tasks' = [c \in {t[1] : t \in tokens} |->
                    [started |-> FALSE,
                     stack |-> <<[tokenset |-> by_first_letter(tokens, c),
                                  root |-> << >>, inloop |-> FALSE]>>]]
    /\ tokens' = {}
    /\ nexamined' = 0
    /\ pc' = "build_outer"
    /\ UNCHANGED <<cfgVars, tokstate, crashed, registered, dirs, progressQ, writerVars,
                   moveVars, archVars, writeQ, tmpdir, res>>

\* a result that is ready from the start
ready == TRUE

\* smrf.ready()
smrfready == \A c \in DOMAIN tasks : tasks[c].stack = << >>

\* index_directory: "while not smrf.ready()"; when it is ready, the final
\* print divides by ntokens, and then the sentinel is put on writeQ
ProgressOuter ==
    /\ pc = "build_outer"
    /\ IF ~smrfready
       THEN pc' = "build_inner" /\ UNCHANGED <<writeQ, crashed>>
       ELSE IF ntokens = 0
       THEN pc' = "crashed" /\ crashed' = "ZeroDivisionError" /\ UNCHANGED writeQ
       ELSE pc' = "wait_writers" /\ writeQ' = Append(writeQ, sentinel)
                                 /\ UNCHANGED crashed
    /\ UNCHANGED <<cfgVars, tokstate, tokens, ntokens, nexamined, trieVars, writerVars,
                   moveVars, archVars, tmpdir, res>>

\* index_directory: "while not npatriciarized_token_q.empty(): nexamined += get()"
ProgressInner ==
    /\ pc = "build_inner"
    /\ IF progressQ > 0
       THEN progressQ' = progressQ - 1 /\ nexamined' = nexamined + 1 /\ pc' = pc
       ELSE pc' = "build_outer" /\ UNCHANGED <<progressQ, nexamined>>
    /\ UNCHANGED <<cfgVars, tokstate, tokens, ntokens, crashed, tasks, registered, dirs,
                   writerVars, moveVars, archVars, writeQ, tmpdir, res>>

\* index_directory: writerres.get() returns, the queue is drained and
\* processes.map(transfer, Path(tmpdir).iterdir()) lists the staging directory
WaitWriters ==
    /\ pc = "wait_writers"
    /\ \A w \in Writers : wr[w].pc = "done"
    /\ writeQ' = << >>
    /\ IF tmpdir.exists
       THEN /\ movers' = [n \in DOMAIN tmpdir.files |-> "queued"]
            /\ pc' = "move"
            /\ UNCHANGED crashed
       ELSE /\ pc' = "crashed"
            /\ crashed' = "FileNotFoundError"
            /\ UNCHANGED movers
    /\ UNCHANGED <<cfgVars, tokstate, tokens, ntokens, nexamined, trieVars, writerVars,
                   indfiles, trie0, archVars, tmpdir, res>>

-----------------------------------------------------------------------------
(* utility/osutils.py: transfer *)

\* the directory set after Path.replace moved directory src to dst
renamed(D, src, dst) ==
    {IF Len(p) >= Len(src) /\ Take(p, Len(src)) = src
     THEN dst \o Drop(p, Len(src)) ELSE p : p \in D}

isempty(D, F, d) == listdirs(D, d) = {} /\ ~\E f \in F : f.dir = d

\* str(src.stem).strip('_')
stemtoken(name) == strip(stem(name), "_")

\* a directory listing that keeps the file
kept(files, name) == files

\* src.replace(target / src.name): what is left in the directory src was in
unlinked(files, name) == [n \in DOMAIN files \ {name} |-> files[n]]

\* transfer after its call of patricia_path, which returned pp: src.replace
\* and the correction of the closest node
relocate(name, pp) ==
    LET moved == {f \in indfiles : ~(f.dir = pp.target /\ f.name = name)}
                 \cup {[dir |-> pp.target, name |-> name, text |-> tmpdir.files[name]]}
        left == unlinked(tmpdir.files, name)
        corrects == /\ pp.correction # None
                    /\ parent(pp.correction) \in dirs
                    /\ pp.correction \notin dirs
        D1 == IF corrects THEN renamed(dirs, pp.closest, pp.correction) ELSE dirs
        F1 == IF corrects
              THEN {[dir |-> IF startswith(f.dir, pp.closest)
                             THEN pp.correction \o Drop(f.dir, Len(pp.closest))
                             ELSE f.dir,
                     name |-> f.name, text |-> f.text] : f \in moved}
              ELSE moved
    IN  IF pp.target = None \/ pp.target \notin dirs
        THEN /\ movers' = [movers EXCEPT ![name] = "raised"]
             /\ UNCHANGED <<indfiles, tmpdir, dirs>>
        ELSE /\ movers' = [movers EXCEPT ![name] = "moved"]
             /\ indfiles' = F1
             /\ dirs' = IF corrects /\ isempty(D1, F1, parent(pp.closest))
                        THEN D1 \ {parent(pp.closest)} ELSE D1
             /\ tmpdir' = [tmpdir EXCEPT !.files = left]

\* transfer(src, destroot) for the staged file called name.  The trie's
\* directories are final when the movers run and every mover moves another
\* file, so the steps of two movers commute.
transfer(name) ==
    /\ pc = "move"
    /\ movers[name] = "queued"
    /\ relocate(name, patricia_path(stemtoken(name), dirs))
    /\ UNCHANGED <<cfgVars, orchVars, tasks, registered, progressQ, writerVars, trie0,
                   archVars, writeQ, res>>

\* transfer, its last statement: src.parent.rmdir() removes the staging
\* directory when it is empty; the OSError of a directory that still holds
\* files, or that another mover has removed, is passed over
rmdir(name) ==
    /\ pc = "move"
    /\ movers[name] = "moved"
    /\ movers' = [movers EXCEPT ![name] = "done"]
    /\ tmpdir' = [tmpdir EXCEPT !.exists = tmpdir.exists /\ DOMAIN tmpdir.files # {}]
    /\ UNCHANGED <<cfgVars, orchVars, trieVars, writerVars, indfiles, trie0, archVars,
                   writeQ, res>>

\* index_directory: processes.map returns, or re-raises what a mover raised;
\* the function returns, which ends the life of nexamined and of the queues
MoveDone ==
    /\ pc = "move"
    /\ \A n \in DOMAIN movers : movers[n] \in {"done", "raised"}
    /\ IF \E n \in DOMAIN movers : movers[n] = "raised"
       THEN pc' = "crashed" /\ crashed' = "OSError" /\ UNCHANGED trie0
       ELSE pc' = "indexed" /\ trie0' = [dirs |-> dirs, files |-> indfiles]
                            /\ UNCHANGED crashed
    /\ nexamined' = 0
    /\ progressQ' = 0
    /\ UNCHANGED <<cfgVars, tokstate, tokens, ntokens, tasks, registered, dirs,
                   writerVars, indfiles, movers, archVars, writeQ, tmpdir, res>>

-----------------------------------------------------------------------------
(* core/archiver.py *)

\* no search has been made
nores == [kind |-> "none", op |-> "none", query |-> << >>, inclusive |-> FALSE,
          fuzzy |-> FALSE, out |-> {}, raised |-> FALSE]

\* _archive: suffix = '.tar' + f'.{compression}' if compression else ''
tarsuffix(compression) ==
    IF compression # << >> THEN <<".", "t", "a", "r", ".">> \o compression ELSE << >>

gz == <<"g", "z">>

bz2 == <<"b", "z", "2">>

xz == <<"x", "z">>

\* the values of archive()'s compression parameter: '' for none, 'gz', 'bz2', 'xz'
Compressions == {<< >>, gz, bz2, xz}

\* the compression a walk of _archive runs with: the pool's walks get
\* archive()'s argument, self._archive(root) gets _archive's default
walkcompression(opts, d) == IF opts.fast /\ d # << >> THEN opts.compression ELSE gz

\* a member of a tar file: an index file with its text, or the tar file of a
\* sub-directory with its own members
indmember(f) == [name |-> f.name, text |-> f.text, members |-> << >>]

tarmember(edge, ext, ms) == [name |-> edge \o ext, text |-> << >>, members |-> ms]

\* no tar file at all
notars(A, d) == {}

\* the tar files of the sub-directories of d that are on disk
subtars(A, d) == {p \in DOMAIN A : Len(p) = Len(d) + 1 /\ Take(p, Len(d)) = d}

\* _archive, one turn of its loop: the members of the tar file made from
\* directory d, added in the order of sorted(entries); the tar file of a
\* sub-directory is the file the walk that made it left on disk
folded(A, F, d) ==
    LET ms == {indmember(f) : f \in {g \in F : g.dir = d}}
              \cup {tarmember(p[Len(p)], A[p].ext, A[p].members) : p \in subtars(A, d)}
        names == sorted({m.name : m \in ms})
    IN  [i \in 1..Len(names) |-> CHOOSE m \in ms : m.name = names[i]]

\* PatriciaArchiver.archive(compression=..., fast=...) called at the point
\* `from` of the program: Path(root).iterdir() and the pool's map when fast;
\* a pool walk with compression '' raises at tar.open(curr + '', ''), before
\* it changes anything, and map re-raises it
ArchiveStart(from, compression, fast) ==
    /\ pc = from
    /\ archopts' = [compression |-> compression, fast |-> fast]
    /\ IF << >> \notin dirs
       THEN /\ pc' = IF fast THEN "crashed" ELSE "archived"
            /\ crashed' = IF fast THEN "FileNotFoundError" ELSE crashed
            /\ UNCHANGED atasks
       ELSE IF fast /\ compression = << >> /\ listdirs(dirs, << >>) # {}
       THEN /\ pc' = "crashed"
            /\ crashed' = "ValueError"
            /\ UNCHANGED atasks
       ELSE /\ pc' = "archiving"
            /\ atasks' = IF fast THEN [c \in listdirs(dirs, << >>) |-> "queued"] ELSE << >>
            /\ UNCHANGED crashed
    /\ res' = nores
    /\ UNCHANGED <<cfgVars, tokstate, tokens, ntokens, nexamined, trieVars, writerVars,
                   moveVars, arch, archive_path, writeQ, tmpdir>>

\* analyze: archiver.archive(), with the defaults of its parameters
ArchiveBegin == ArchiveStart("searched", gz, TRUE)

\* one turn of _archive's loop over os.walk(root, topdown=False): a directory
\* is reached after its sub-directories, which are tar files by then. When
\* fast, the walk of root / c runs in a pool process; otherwise the one walk
\* of self._archive(root) finishes a sub-tree before it enters the next
_archive(d) ==
    LET c == d[1] IN
    /\ pc = "archiving"
    /\ d \in dirs /\ d # << >>
    /\ listdirs(dirs, d) = {}
    /\ IF archopts.fast
       THEN /\ atasks[c] # "done"
            /\ atasks[c] = "queued" =>
                  Cardinality({x \in DOMAIN atasks : atasks[x] = "running"}) < ncpu
            /\ atasks' = [atasks EXCEPT ![c] = IF d = <<c>> THEN "done" ELSE "running"]
       ELSE /\ \A e \in DOMAIN arch : startswith(d, Take(e, Len(e) - 1))
            /\ UNCHANGED atasks
    /\ arch' = [p \in (DOMAIN arch \ subtars(arch, d)) \cup {d} |->
                   IF p = d
                   THEN [ext |-> tarsuffix(walkcompression(archopts, d)),
                         members |-> folded(arch, indfiles, d)]
                   ELSE arch[p]]
    /\ indfiles' = {f \in indfiles : f.dir # d}
    /\ dirs' = dirs \ {d}
    /\ UNCHANGED <<cfgVars, orchVars, tasks, registered, progressQ, writerVars, movers,
                   trie0, archive_path, archopts, writeQ, tmpdir, res>>

\* PatriciaArchiver.archive: the turn of self._archive(root) at root itself,
\* after the pool's map or after the walk's turns below root, and
\* os.renames(archname, archive_path)
archive ==
    /\ pc = "archiving"
    /\ \A c \in DOMAIN atasks : atasks[c] = "done"
    /\ listdirs(dirs, << >>) = {}
    /\ archive_path' = [exists |-> TRUE,
                        ext |-> tarsuffix(walkcompression(archopts, << >>)),
                        members |-> folded(arch, indfiles, << >>)]
    /\ arch' = << >>
    /\ indfiles' = {f \in indfiles : f.dir # << >>}
    /\ dirs' = dirs \ {<< >>}
    /\ pc' = "archived"
    /\ UNCHANGED <<cfgVars, tokstate, tokens, ntokens, nexamined, crashed, tasks,
                   registered, progressQ, writerVars, movers, trie0, atasks, archopts,
                   writeQ, tmpdir, res>>

-----------------------------------------------------------------------------
(* core/searches.py *)

id_ext == <<".", "i", "n", "d">>

\* str.splitlines() of a file whose text is a sequence of written chunks: a
\* source path or "\n"
RECURSIVE splitlines(_)
splitlines(text) ==
    IF text = << >> THEN << >>
    ELSE LET i == find(text, "\n")
         IN  IF i < 0 THEN <<text>>
             ELSE <<Take(text, i)>> \o splitlines(Drop(text, i + 1))

\* s[n:]
from(s, n) == IF n >= Len(s) THEN << >> ELSE Drop(s, n)

\* FileTreeSearcher.get_entries(path, unique=True)
get_entries(f) == Range(splitlines(f.text))

\* closest.glob('**/*.ind')
rglob(F, closest) == {f \in F : startswith(f.dir, closest) /\ endswith(f.name, id_ext)}

\* closest.glob('*.ind')
glob(F, closest) == {f \in F : f.dir = closest /\ endswith(f.name, id_ext)}

\* FileTreeSearcher.fuzzyfindtoken after its call of patricia_path
fuzzyfound(F, pp) ==
    IF pp.closest # None /\ Len(pp.target) <= Len(pp.closest)
    THEN rglob(F, pp.closest) ELSE {}

\* FileTreeSearcher.fuzzyfindtoken: the index files under the closest node
fuzzyfindtoken(token, D, F) == fuzzyfound(F, patricia_path(token, D))

\* an exact policy that globs like the fuzzy one
globall(token, D, F) == fuzzyfound(F, patricia_path(token, D))

\* FileTreeSearcher.findtoken after its call of patricia_path
exactfound(F, pp) ==
    IF pp.target = pp.closest /\ pp.closest # None THEN glob(F, pp.closest) ELSE {}

\* FileTreeSearcher.findtoken: the index files of the node that spells token
findtoken(token, D, F) == exactfound(F, patricia_path(token, D))

\* get_records: "matches", the members whose name begins like _token, sorted
matching(members, _token) ==
    LET ms == {members[i] : i \in {j \in 1..Len(members) :
                                      _token = << >> \/ members[j].name[1] = _token[1]}}
        names == sorted({m.name : m \in ms})
    IN  [k \in 1..Len(names) |-> CHOOSE m \in ms : m.name = names[k]]

\* get_records: the first loop's hits, by position in matches
exacts(matches, token) ==
    {k \in 1..Len(matches) : /\ suffix(matches[k].name) = id_ext
                             /\ strip(stem(matches[k].name), "_") = token}

\* get_records: "stem = name[:name.find('.')]"
tarstem(name) ==
    IF find(name, ".") < 0 THEN Take(name, Len(name) - 1) ELSE Take(name, find(name, "."))

\* get_records: a member is a '.tar' file to descend into
istar(name) == suffixes(name) # << >> /\ suffixes(name)[1] = <<".", "t", "a", "r">>

\* TarFileSearcher._retrievesrcs.get_records: what one call adds to res;
\* records is the call after "matches" is known
RECURSIVE records(_, _, _, _)
records(matches, _token, token, fuzzy) ==
    IF ~fuzzy /\ exacts(matches, token) # {}
    THEN Range(splitlines(matches[Min(exacts(matches, token))].text))
    ELSE UNION {IF startswith(matches[k].name, token) /\ endswith(matches[k].name, id_ext)
                THEN Range(splitlines(matches[k].text))
                ELSE IF istar(matches[k].name)
                THEN records(matching(matches[k].members,
                                      IF tarstem(matches[k].name) # _token
                                      THEN from(_token, Len(tarstem(matches[k].name)))
                                      ELSE << >>),
                             IF tarstem(matches[k].name) # _token
                             THEN from(_token, Len(tarstem(matches[k].name)))
                             ELSE << >>,
                             token, fuzzy)
                ELSE {} : k \in 1..Len(matches)}

get_records(members, _token, token, fuzzy) ==
    records(matching(members, _token), _token, token, fuzzy)

\* TarFileSearcher._retrievesrcs(token, fuzzy=fuzzy) on the archive's members
_retrievesrcs(token, A, fuzzy) == get_records(A, token, token, fuzzy)

\* an index to search: the directory trie (D, F) or the archive's members A
FileTreeSearcher(D, F) == [kind |-> "dir", D |-> D, F |-> F, A |-> << >>]

TarFileSearcher(A) == [kind |-> "tar", D |-> {}, F |-> {}, A |-> A]

\* the policy function of a searcher, followed by get_entries for the
\* directory trie: the source paths indexed for one token
srcset(S, token, fuzzy) ==
    IF S.kind = "dir"
    THEN UNION {get_entries(f) :
                   f \in IF fuzzy THEN fuzzyfindtoken(token, S.D, S.F)
                         ELSE findtoken(token, S.D, S.F)}
    ELSE _retrievesrcs(token, S.A, fuzzy)

\* a search that takes any token's sources, whatever inclusive is
unioned(S, query, inclusive, fuzzy) ==
    UNION {srcset(S, t, fuzzy) : t \in as_tokens(query, TRUE)}

\* FileTreeSearcher._search and TarFileSearcher._search
_search(S, query, inclusive, fuzzy) ==
    LET toks == as_tokens(query, TRUE)
        srcsets == {srcset(S, t, fuzzy) : t \in toks}
    IN  IF inclusive THEN UNION srcsets
        ELSE IF toks = {} THEN {}
        ELSE {src \in UNION srcsets : \A ss \in srcsets : src \in ss}

fuzzy_search(S, query, inclusive) == _search(S, query, inclusive, TRUE)

match_words(S, query, inclusive) == _search(S, query, inclusive, FALSE)

\* " ".join(phrase_tokens)
RECURSIVE joined(_)
joined(toks) ==
    IF toks = << >> THEN << >>
    ELSE IF Len(toks) = 1 THEN toks[1]
    ELSE toks[1] \o <<" ">> \o joined(Tail(toks))

\* the text of the corpus file a line of an index file names
readable(src) == Len(src) = 1 /\ src[1] \in DOMAIN corpus

\* PatriciaTrieSearcher._examiner(filepath, state): found
_examiner(filepath, phrase_tokens, phrase_len, fuzzy, endtok) ==
    LET toks == as_tokens(corpus[filepath[1]], FALSE)
        lim == Max({Len(toks) - phrase_len - (IF fuzzy THEN 1 ELSE 0), 0})
    IN  \E x \in 0..(lim - 1) :
            /\ phrase_tokens = SubSeq(toks, x + 1, x + phrase_len)
            /\ startswith(toks[x + phrase_len - (IF fuzzy THEN 0 ELSE 1) + 1], endtok)

\* match_phrase: the candidates handed to the pool's map of _examiner
candidates(S, query, fuzzy) ==
    LET all == as_tokens(query, FALSE)
        endmatches == IF fuzzy THEN fuzzy_search(S, all[Len(all)], FALSE) ELSE {}
        found == match_words(S, joined(IF fuzzy THEN Take(all, Len(all) - 1) ELSE all),
                             FALSE)
    IN  IF query = << >> \/ Len(all) <= 1 \/ (fuzzy /\ endmatches = {}) THEN {}
        ELSE IF endmatches # {} THEN found \cap endmatches ELSE found

\* PatriciaTrieSearcher.match_phrase(query, fuzzy=fuzzy)
match_phrase(S, query, fuzzy) ==
    LET all == as_tokens(query, FALSE)
        phrase_tokens == IF fuzzy THEN Take(all, Len(all) - 1) ELSE all
    IN  IF query = << >> THEN {}
        ELSE IF Len(all) > 1
        THEN {src \in candidates(S, query, fuzzy) :
                 readable(src) /\ _examiner(src, phrase_tokens, Len(phrase_tokens),
                                            fuzzy, all[Len(all)])}
        ELSE IF fuzzy THEN fuzzy_search(S, query, FALSE)
        ELSE match_words(S, query, FALSE)

\* _examiner's read_text raises for a candidate that names no corpus file
phrase_raises(S, query, fuzzy) == \E src \in candidates(S, query, fuzzy) : ~readable(src)

\* Searcher(idroot): the searcher for the directory trie while it is on disk,
\* for the archive once it has been made
Searcher ==
    IF pc = "indexed" THEN FileTreeSearcher(dirs, indfiles)
    ELSE TarFileSearcher(archive_path.members)

\* the paths a caller hands to Searcher(idroot): the index root, the archive
\* file, and an index file (in the staging directory or on the trie)
Idroots == {"inddir", "archive_path", "indfile"}

\* what is on disk at the path: a directory, a tar file, a regular file that
\* is no tar file, or nothing
ondisk(idroot) ==
    CASE idroot = "inddir" -> IF << >> \in dirs THEN "dir" ELSE "missing"
      [] idroot = "archive_path" -> IF archive_path.exists THEN "tar" ELSE "missing"
      [] idroot = "indfile" -> IF DOMAIN tmpdir.files # {} \/ indfiles # {}
                               THEN "file" ELSE "missing"

\* the factory Searcher(idroot) for a path with `was` on disk: Path.is_dir(),
\* then tar.is_tarfile, which returns False for a file that is no tar file
\* and lets the FileNotFoundError of its open() pass; else searcher = None
supplied(was) ==
    CASE was = "dir" -> [kind |-> "dir", raised |-> FALSE]
      [] was = "tar" -> [kind |-> "tar", raised |-> FALSE]
      [] was = "file" -> [kind |-> "None", raised |-> FALSE]
      [] was = "missing" -> [kind |-> "none", raised |-> TRUE]

\* a caller's Searcher(idroot), at any time
Factory(idroot) ==
    /\ res' = [kind |-> supplied(ondisk(idroot)).kind, op |-> "Searcher", query |-> << >>,
               inclusive |-> FALSE, fuzzy |-> FALSE, out |-> {},
               raised |-> supplied(ondisk(idroot)).raised,
               idroot |-> idroot, was |-> ondisk(idroot)]
    /\ UNCHANGED <<cfgVars, orchVars, trieVars, writerVars, moveVars, archVars, writeQ,
                   tmpdir>>

-----------------------------------------------------------------------------
(* Corpora *)

\* the largest number of words in the files of a corpus, all together
MaxWords == 3

Files == {"f1", "f2"}

\* the texts a corpus file can hold: "aa", "abb", "ab a", "ab abb", "B,ab a"
\* and the empty text
TextSeq ==
    << <<"a", "a">>,
       <<"a", "b", "b">>,
       <<"a", "b", " ", "a">>,
       <<"a", "b", " ", "a", "b", "b">>,
       <<"B", ",", "a", "b", " ", "a">>,
       << >> >>

Texts == Range(TextSeq)

rank(text) == CHOOSE i \in 1..Len(TextSeq) : TextSeq[i] = text

RECURSIVE nwords(_, _)
nwords(c, S) ==
    IF S = {} THEN 0
    ELSE LET f == CHOOSE x \in S : TRUE
         IN  Len(as_tokens(c[f], FALSE)) + nwords(c, S \ {f})

\* the corpora, up to the names of their files
Corpora ==
    {c \in UNION {[S -> Texts] : S \in {T \in SUBSET Files : "f2" \in T => "f1" \in T}} :
        /\ nwords(c, DOMAIN c) <= MaxWords
        /\ "f2" \in DOMAIN c => rank(c["f1"]) <= rank(c["f2"])}

-----------------------------------------------------------------------------
(* Searches *)

\* the longest word of a query
MaxTokenLen == 3

Alphabet == {"a", "b"}

RECURSIVE Strings(_)
Strings(n) ==
    IF n = 0 THEN {<< >>}
    ELSE Strings(n - 1) \cup {Append(w, c) : w \in Strings(n - 1), c \in Alphabet}

\* the words of the corpus texts
Vocabulary == UNION {as_tokens(text, TRUE) : text \in Texts}

\* the queries: the empty one, every word, every phrase of two words of the
\* corpus texts, and the phrase "B,ab a"
Queries ==
    Strings(MaxTokenLen)
    \cup {v \o <<" ">> \o w : v \in Vocabulary, w \in Vocabulary}
    \cup {TextSeq[5]}

\* searcher.fuzzy_search(query, inclusive=inclusive)
FuzzySearch(query, inclusive) ==
    /\ pc \in {"indexed", "archived"}
    /\ pc' = IF pc = "indexed" THEN "searched" ELSE "done"
    /\ res' = [kind |-> Searcher.kind, op |-> "fuzzy_search", query |-> query,
               inclusive |-> inclusive, fuzzy |-> TRUE,
               out |-> fuzzy_search(Searcher, query, inclusive), raised |-> FALSE]
    /\ UNCHANGED <<cfgVars, tokstate, tokens, ntokens, nexamined, crashed, trieVars,
                   writerVars, moveVars, archVars, writeQ, tmpdir>>

\* searcher.match_words(query, inclusive=inclusive)
MatchWords(query, inclusive) ==
    /\ pc \in {"indexed", "archived"}
    /\ pc' = IF pc = "indexed" THEN "searched" ELSE "done"
    /\ res' = [kind |-> Searcher.kind, op |-> "match_words", query |-> query,
               inclusive |-> inclusive, fuzzy |-> FALSE,
               out |-> match_words(Searcher, query, inclusive), raised |-> FALSE]
    /\ UNCHANGED <<cfgVars, tokstate, tokens, ntokens, nexamined, crashed, trieVars,
                   writerVars, moveVars, archVars, writeQ, tmpdir>>

\* searcher.match_phrase(query, fuzzy=fuzzy); searcher.search(query) is the
\* call with fuzzy=True
MatchPhrase(query, fuzzy) ==
    /\ pc \in {"indexed", "archived"}
    /\ pc' = IF pc = "indexed" THEN "searched" ELSE "done"
    /\ res' = [kind |-> Searcher.kind, op |-> "match_phrase", query |-> query,
               inclusive |-> FALSE, fuzzy |-> fuzzy,
               out |-> match_phrase(Searcher, query, fuzzy),
               raised |-> phrase_raises(Searcher, query, fuzzy)]
    /\ UNCHANGED <<cfgVars, tokstate, tokens, ntokens, nexamined, crashed, trieVars,
                   writerVars, moveVars, archVars, writeQ, tmpdir>>

-----------------------------------------------------------------------------
(* Runs *)

\* the state analyze() starts index_directory in: mp_rmdir has removed the
\* index, staging and archive directories
InitFiles(P, C, n, th, U) ==
    /\ platform \in P
    /\ corpus \in C
    /\ unreadable \in {S \in U : S \subseteq DOMAIN corpus}
    /\ ncpu = n
    /\ threshold = th
    /\ pc = "start"
    /\ tokstate = [f \in DOMAIN corpus |-> "queued"]
    /\ tokens = {}
    /\ ntokens = 0
    /\ nexamined = 0
    /\ writeQ = << >>
    /\ progressQ = 0
    /\ tasks = << >>
    /\ registered = {}
    /\ dirs = {}
    /\ indfiles = {}
    /\ tmpdir = [exists |-> FALSE, files |-> << >>]
    /\ movers = << >>
    /\ wlock = 0
    /\ wr = [w \in 1..(n \div 2) |-> writer0]
    /\ polls = [id \in {<<w, q>> : w \in 1..(n \div 2), q \in 1..(n \div 2)} |-> poll0]
    /\ flushes = [w \in 1..(n \div 2) |-> << >>]
    /\ crashed = ""
    /\ trie0 = [dirs |-> {}, files |-> {}]
    /\ arch = << >>
    /\ atasks = << >>
    /\ archive_path = [exists |-> FALSE, ext |-> << >>, members |-> << >>]
    /\ archopts = [compression |-> gz, fast |-> TRUE]
    /\ res = nores

\* the same, with every file of the corpus readable
InitRun(P, C, n, th) == InitFiles(P, C, n, th, {{}})

\* cpu_count() of the machine
Cpus == 2

\* writer's default threshold, 10 ** 3
Threshold == 1000

Init == InitRun({"posix", "nt"}, Corpora, Cpus, Threshold)

Build ==
    \/ StartWriters
    \/ \E f \in DOMAIN corpus : broadcast_tokens(f) \/ Collect(f)
    \/ GroupByFirstLetter
    \/ \E c \in DOMAIN tasks : TaskStep(c)
    \/ ProgressOuter
    \/ ProgressInner
    \/ WaitWriters
    \/ \E n \in DOMAIN movers : transfer(n) \/ rmdir(n)
    \/ MoveDone

Write ==
    \E w \in Writers :
        \/ WriterStart(w)
        \/ \E p \in 1..nwriters :
              \/ PollGet(w, p)
              \/ PollRepost(w, p)
              \/ PollWait(w, p)
              \/ PollSetdefault(w, p)
              \/ PollStore(w, p)
              \/ PollEnter(w, p)
              \/ PollAcquire(w, p)
              \/ PollAdd(w, p)
              \/ PollCount(w, p)
        \/ \E k \in 1..Len(flushes[w]) :
              \/ FlushOpen(w, k)
              \/ FlushWrite(w, k)
              \/ FlushNewline(w, k)
              \/ FlushDrain(w, k)
              \/ FlushClose(w, k)
        \/ FinalBegin(w)
        \/ FinalEnd(w)

Archive ==
    \/ ArchiveBegin
    \/ \E d \in dirs : _archive(d)
    \/ archive

Search ==
    \E query \in Queries, flag \in BOOLEAN :
        \/ FuzzySearch(query, flag)
        \/ MatchWords(query, flag)
        \/ MatchPhrase(query, flag)

Next == Build \/ Write \/ Archive \/ Search

Spec == Init /\ [][Next]_vars

-----------------------------------------------------------------------------
(* Runs of index_directory in which the writers spill at the threshold *)

\* cpu_count() of a machine that gets two writers with two poll threads each
WriterCpus == 4

\* cpu_count() of a machine that gets one writer, whose pool has two threads
\* left for flush tasks while the poll thread runs
FlushCpus == 3

\* a threshold the small corpora exceed
SpillAfter == 0

\* two files with the same word, for the machine with two writers
PairCorpora == {c \in [Files -> Texts] : c["f1"] = TextSeq[2] /\ c["f2"] = TextSeq[2]}

\* two files that share a word, one of them with a second word, for the
\* machine with one writer
WriterCorpora == {c \in [Files -> Texts] : c["f1"] = TextSeq[2] /\ c["f2"] = TextSeq[4]}

InitWriter ==
    \/ InitRun({"posix"}, WriterCorpora, FlushCpus, SpillAfter)
    \/ InitRun({"posix"}, PairCorpora, WriterCpus, SpillAfter)

Spill ==
    \E w \in Writers :
        \/ SpillBegin(w)
        \/ PopItem(w)
        \/ SpillRelease(w)
        \/ SpillReopen(w)

NextWriter == Build \/ Write \/ Spill

SpecWriter == InitWriter /\ [][NextWriter]_vars

-----------------------------------------------------------------------------
(* Runs in which archive() is called on the index index_directory has built,
   with any of its compression and fast arguments *)

InitArchive == InitRun({"posix"}, Corpora, Cpus, Threshold)

ArchiveCall ==
    \E compression \in Compressions, fast \in BOOLEAN :
        ArchiveStart("indexed", compression, fast)

Archived ==
    \/ ArchiveCall
    \/ \E d \in dirs : _archive(d)
    \/ archive

NextArchive == Build \/ Write \/ Archived

SpecArchive == InitArchive /\ [][NextArchive]_vars

-----------------------------------------------------------------------------
(* Runs of index_directory on a corpus with files that cannot be read *)

InitUnreadable == InitFiles({"posix"}, Corpora, Cpus, Threshold, SUBSET Files)

NextUnreadable == Build \/ Write

SpecUnreadable == InitUnreadable /\ [][NextUnreadable]_vars

-----------------------------------------------------------------------------
(* Runs in which Searcher() is called on a path while the index is built and
   archived *)

Factories == \E idroot \in Idroots : Factory(idroot)

\* archiver_main: archiver.archive() on the index just built
ArchiveBuilt == ArchiveStart("indexed", gz, TRUE) \/ (\E d \in dirs : _archive(d)) \/ archive

NextFactory == Build \/ Write \/ ArchiveBuilt \/ Factories

InitFactory == InitRun({"posix"}, WriterCorpora, Cpus, Threshold)

SpecFactory == InitFactory /\ [][NextFactory]_vars

-----------------------------------------------------------------------------
(* Runs in which transfer() is called on the index index_directory has built,
   for a staged file of any token *)

\* the tokens a staged file is named after
StagedTokens == Strings(MaxTokenLen) \ {<< >>}

\* a file <token>_.ind that names one source is put in the staging directory
\* and the movers are run on the directory: transfer(src, inddir)
Stage(token) ==
    /\ pc = "indexed"
    /\ pc' = "move"
    /\ tmpdir' = [exists |-> TRUE, files |-> [n \in {indname(token)} |-> <<"f1", "\n">>]]
    /\ movers' = [n \in {indname(token)} |-> "queued"]
    /\ UNCHANGED <<cfgVars, tokstate, tokens, ntokens, nexamined, crashed, trieVars,
                   writerVars, indfiles, trie0, archVars, writeQ, res>>

InitTransfer == InitRun({"posix"}, Corpora, Cpus, Threshold)

Staged == \E token \in StagedTokens : Stage(token)

NextTransfer == Build \/ Write \/ Staged

SpecTransfer == InitTransfer /\ [][NextTransfer]_vars

-----------------------------------------------------------------------------
(* Searches and the archive on the index of the corpus of three files of the
   specification's worked example *)

good == <<"g", "o", "o", "d">>

morning == <<"m", "o", "r", "n", "i", "n", "g">>

evening == <<"e", "v", "e", "n", "i", "n", "g">>

friend == <<"f", "r", "i", "e", "n", "d">>

\* a.txt = "good morning friend", b.txt = "good evening",
\* c.txt = "Good Morning, world!"
ExampleCorpus ==
    [f \in {"a.txt", "b.txt", "c.txt"} |->
        CASE f = "a.txt" -> good \o <<" ">> \o morning \o <<" ">> \o friend
          [] f = "b.txt" -> good \o <<" ">> \o evening
          [] f = "c.txt" -> <<"G", "o", "o", "d", " ", "M">> \o Drop(morning, 1)
                              \o <<",", " ", "w", "o", "r", "l", "d", "!">>]

\* index_directory: tokens = {token for tokenset in tokensets for token in tokenset}
unique_tokens(C) == UNION {as_tokens(C[f], TRUE) : f \in DOMAIN C}

\* the sequences that list the elements of a set once each
RECURSIVE orders(_)
orders(S) ==
    IF S = {} THEN {<< >>}
    ELSE UNION {{<<x>> \o o : o \in orders(S \ {x})} : x \in S}

\* writer.flush: print(src, file=indfile) for the sources in the sequence
RECURSIVE printed(_)
printed(srcs) ==
    IF srcs = << >> THEN << >> ELSE <<srcs[1], "\n">> \o printed(Tail(srcs))

\* the files of corpus C whose record holds the token
holders(C, token) == {f \in DOMAIN C : token \in as_tokens(C[f], TRUE)}

\* the index files the movers leave on the trie D for the tokens T of corpus
\* C: for every token one file on its node, with the files that hold the
\* token in any order
RECURSIVE moved(_, _, _)
moved(C, D, T) ==
    IF T = {} THEN {{}}
    ELSE LET t == CHOOSE x \in T : TRUE
         IN  {F \cup {[dir |-> patricia_path(t, D).target, name |-> indname(t),
                       text |-> printed(o)]} :
                 F \in moved(C, D, T \ {t}), o \in orders(holders(C, t))}

\* index_directory has returned on a corpus of C without a threshold spill:
\* the pool has run index_tokenset for every group, each writer has flushed
\* the sources of every token it held, in the order its set gave them, in one
\* last spill, and the movers have put every staging file on its node
InitIndexed(P, C, n, th) ==
    /\ platform \in P
    /\ corpus \in C
    /\ unreadable = {}
    /\ ncpu = n
    /\ threshold = th
    /\ pc = "indexed"
    /\ tokstate = [f \in DOMAIN corpus |-> "collected"]
    /\ tokens = {}
    /\ ntokens = Cardinality(unique_tokens(corpus))
    /\ nexamined = 0
    /\ writeQ = << >>
    /\ progressQ = 0
    /\ tasks = [c \in {t[1] : t \in unique_tokens(corpus)} |->
                   [started |-> TRUE, stack |-> << >>]]
    /\ registered = unique_tokens(corpus)
    /\ dirs = grown(unique_tokens(corpus), << >>)
    /\ indfiles \in moved(corpus, dirs, unique_tokens(corpus))
    /\ tmpdir = [exists |-> FALSE, files |-> << >>]
    /\ movers = [name \in {indname(t) : t \in unique_tokens(corpus)} |-> "done"]
    /\ wlock = 0
    /\ wr = [w \in 1..(n \div 2) |-> [writer0 EXCEPT !.pc = "done"]]
    /\ polls = [id \in {<<w, q>> : w \in 1..(n \div 2), q \in 1..(n \div 2)} |->
                   [poll0 EXCEPT !.pc = "done"]]
    /\ flushes = [w \in 1..(n \div 2) |-> << >>]
    /\ crashed = ""
    /\ trie0 = [dirs |-> dirs, files |-> indfiles]
    /\ arch = << >>
    /\ atasks = << >>
    /\ archive_path = [exists |-> FALSE, ext |-> << >>, members |-> << >>]
    /\ archopts = [compression |-> gz, fast |-> TRUE]
    /\ res = nores

InitExample == InitIndexed({"posix", "nt"}, {ExampleCorpus}, Cpus, Threshold)

\* the searches of the example
ExampleSearch ==
    \/ \E query \in {good, morning, good \o <<" ">> \o evening} : MatchWords(query, FALSE)
    \/ MatchPhrase(good \o <<" ">> \o morning, TRUE)
    \/ MatchPhrase(morning \o <<" ">> \o good, FALSE)
    \/ FuzzySearch(Take(morning, 3), FALSE)

NextExample == Archive \/ ExampleSearch

SpecExample == InitExample /\ [][NextExample]_vars

-----------------------------------------------------------------------------
(* patricia_path for any token on the trie of any small token universe *)

\* the most tokens of a universe a trie is built from
MaxTrieTokens == 3

\* a corpus of one file for every universe of one to MaxTrieTokens tokens
PathCorpora ==
    {[f \in {"f1"} |-> joined(CHOOSE o \in orders(T) : TRUE)] :
        T \in {S \in SUBSET StagedTokens : Cardinality(S) \in 1..MaxTrieTokens}}

\* target, closest, correction = patricia_path(token, inddir), called once on
\* the index as index_directory left it
PatriciaPath(token) ==
    /\ pc = "indexed" /\ res.op = "none"
    /\ res' = [nores EXCEPT !.op = "patricia_path", !.query = token] @@
              [path |-> patricia_path(token, dirs)]
    /\ UNCHANGED <<cfgVars, pc, tokstate, tokens, ntokens, nexamined, crashed, trieVars,
                   writerVars, indfiles, tmpdir, movers, trie0, archVars, writeQ>>

\* the paths of up to two components, each the name of a token
Paths ==
    {<< >>} \cup {<<t>> : t \in StagedTokens}
            \cup {<<t, u>> : t \in StagedTokens, u \in StagedTokens}

\* safepath = safeguard_path(path)
Safeguard(path) ==
    /\ pc = "indexed" /\ res.op = "none"
    /\ res' = [nores EXCEPT !.op = "safeguard_path"] @@
              [path |-> path, safepath |-> safeguard_path(path)]
    /\ UNCHANGED <<cfgVars, pc, tokstate, tokens, ntokens, nexamined, crashed, trieVars,
                   writerVars, indfiles, tmpdir, movers, trie0, archVars, writeQ>>

InitPath == InitIndexed({"posix", "nt"}, PathCorpora, Cpus, Threshold)

NextPath ==
    \/ \E token \in StagedTokens : PatriciaPath(token)
    \/ \E path \in Paths : Safeguard(path)

SpecPath == InitPath /\ [][NextPath]_vars

-----------------------------------------------------------------------------
(* as_tokens on any short text *)

\* the longest text tokenized
MaxTextLen == 4

\* a lower-case and an upper-case letter, whitespace that is printable and
\* whitespace that is not, a punctuation mark, and a character that is
\* neither printable nor whitespace
TextChars == {"a", "B", " ", "\t", ",", "NUL"}

RECURSIVE TextsUpTo(_)
TextsUpTo(n) ==
    IF n = 0 THEN {<< >>}
    ELSE TextsUpTo(n - 1) \cup {Append(w, c) : w \in TextsUpTo(n - 1), c \in TextChars}

TextCorpora == {[f \in {"f1"} |-> text] : text \in TextsUpTo(MaxTextLen)}

\* list(as_tokens(text, unique=False)) and set(as_tokens(text)) for the text of
\* the corpus file
AsTokens ==
    /\ pc = "start" /\ res.op = "none"
    /\ res' = [nores EXCEPT !.op = "as_tokens"] @@
              [text |-> corpus["f1"],
               tokens |-> as_tokens(corpus["f1"], FALSE),
               unique_tokens |-> as_tokens(corpus["f1"], TRUE)]
    /\ UNCHANGED <<cfgVars, pc, tokstate, tokens, ntokens, nexamined, crashed, trieVars,
                   writerVars, indfiles, tmpdir, movers, trie0, archVars, writeQ>>

InitTokens == InitRun({"posix"}, TextCorpora, Cpus, Threshold)

NextTokens == AsTokens

SpecTokens == InitTokens /\ [][NextTokens]_vars

-----------------------------------------------------------------------------
(* Runs in which archive(keep_originals=True) is called on the index
   index_directory has built *)

\* PatriciaArchiver.archive(keep_originals=True): self.tmpdir.mkdir(parents=True,
\* exist_ok=True), then copy2(root, shadowroot) opens root to read it as one
\* file: for a directory open() raises IsADirectoryError on POSIX and
\* PermissionError on a Windows-family system, for a missing root
\* FileNotFoundError, and archive() is left through the exception
ArchiveKeeping ==
    /\ pc = "indexed"
    /\ tmpdir' = [tmpdir EXCEPT !.exists = TRUE]
    /\ pc' = "crashed"
    /\ crashed' = IF << >> \notin dirs THEN "FileNotFoundError"
                  ELSE IF platform = "nt" THEN "PermissionError"
                  ELSE "IsADirectoryError"
    /\ res' = [nores EXCEPT !.op = "archive", !.raised = TRUE] @@ [keep_originals |-> TRUE]
    /\ UNCHANGED <<cfgVars, tokstate, tokens, ntokens, nexamined, trieVars, writerVars,
                   indfiles, movers, trie0, archVars, writeQ>>

InitKeeping == InitRun({"posix", "nt"}, Corpora, Cpus, Threshold)

NextKeeping == Build \/ Write \/ ArchiveKeeping

SpecKeeping == InitKeeping /\ [][NextKeeping]_vars

-----------------------------------------------------------------------------
(* index_directory on machines of every small number of logical CPUs, with
   the threads and the pool processes scheduled fairly *)

\* cpu_count() from one to Cpus
InitCpus == \E n \in 1..Cpus : InitRun({"posix"}, Corpora, n, Threshold)

NextCpus == Build \/ Write

\* the operating system runs every thread that can run: the orchestrator, a
\* writer task the pool has taken, and a poll thread at every step of its loop
FairCpus ==
    /\ WF_vars(StartWriters)
    /\ \A w \in 1..Cpus :
          /\ WF_vars(w \in Writers /\ WriterStart(w))
          /\ \A p \in 1..Cpus :
                WF_vars(/\ w \in Writers
                        /\ p \in 1..nwriters
                        /\ \/ PollGet(w, p)
                           \/ PollWait(w, p)
                           \/ PollSetdefault(w, p)
                           \/ PollStore(w, p)
                           \/ PollEnter(w, p)
                           \/ PollAcquire(w, p)
                           \/ PollAdd(w, p)
                           \/ PollCount(w, p))

SpecCpus == InitCpus /\ [][NextCpus]_vars /\ FairCpus

-----------------------------------------------------------------------------
(* Runs of index_directory in which opening an index file of the staging
   directory can fail, with every thread and process scheduled fairly *)

\* flush: the open('a') of the with statement raises OSError (disk full, no
\* permission, too many open files); the IndFile entered before it is left
FlushFail(w, k) ==
    LET t == flushes[w][k] IN
    /\ t.pc = "queued"
    /\ busythreads(w) < ncpu
    /\ wr[w].objs[t.id].owner = nobody
    /\ flushes' = [flushes EXCEPT ![w][k].pc = "failed"]
    /\ UNCHANGED <<cfgVars, orchVars, trieVars, moveVars, archVars, writeQ, tmpdir,
                   wlock, wr, polls, res>>

\* every task of the starmap call has ended, one of them with an exception
settled(w) ==
    /\ \A k \in 1..Len(flushes[w]) : flushes[w][k].pc \in {"closed", "failed"}
    /\ \E k \in 1..Len(flushes[w]) : flushes[w][k].pc = "failed"

\* writer main thread: starmap at line 133 raises the task's exception, which
\* leaves "with ecaccess", the ThreadPool block and writer(): lines 134 to 137
\* are not run
SpillRaise(w) ==
    /\ wr[w].pc = "flushing"
    /\ settled(w)
    /\ wr' = [wr EXCEPT ![w].pc = "raised"]
    /\ UNCHANGED <<cfgVars, orchVars, trieVars, moveVars, archVars, writeQ, tmpdir,
                   wlock, polls, flushes, res>>

\* writer main thread: starmap at line 140 raises: "with writer_lock" releases
\* the lock on the way out
FinalRaise(w) ==
    /\ wr[w].pc = "final"
    /\ settled(w)
    /\ wlock' = 0
    /\ wr' = [wr EXCEPT ![w].pc = "raised"]
    /\ UNCHANGED <<cfgVars, orchVars, trieVars, moveVars, archVars, writeQ, tmpdir,
                   polls, flushes, res>>

Fault ==
    \E w \in Writers :
        \/ \E k \in 1..Len(flushes[w]) : FlushFail(w, k)
        \/ SpillRaise(w)
        \/ FinalRaise(w)

\* one file of one word, for the machine with two writers
FaultCorpora == {c \in Corpora : DOMAIN c = {"f1"} /\ c["f1"] = TextSeq[2]}

InitFault == InitRun({"posix"}, FaultCorpora, WriterCpus, SpillAfter)

NextFault == Build \/ Write \/ Spill \/ Fault

\* the steps of the main thread of writer w
mainthread(w) ==
    \/ WriterStart(w)
    \/ SpillBegin(w)
    \/ PopItem(w)
    \/ SpillRelease(w)
    \/ SpillReopen(w)
    \/ SpillRaise(w)
    \/ FinalBegin(w)
    \/ FinalEnd(w)
    \/ FinalRaise(w)

\* the steps of poll thread p of writer w
pollthread(w, p) ==
    \/ PollGet(w, p)
    \/ PollRepost(w, p)
    \/ PollWait(w, p)
    \/ PollSetdefault(w, p)
    \/ PollStore(w, p)
    \/ PollEnter(w, p)
    \/ PollAcquire(w, p)
    \/ PollAdd(w, p)
    \/ PollCount(w, p)

\* the steps of a flush task that meets no error; the file object drains its
\* buffer when it is full, which need not happen
flushthread(w, k) ==
    \/ FlushOpen(w, k)
    \/ FlushWrite(w, k)
    \/ FlushNewline(w, k)
    \/ FlushClose(w, k)

\* the operating system runs every thread and every process that can run
FairFault ==
    \A w \in 1..(WriterCpus \div 2) :
        /\ WF_vars(w \in Writers /\ mainthread(w))
        /\ \A p \in 1..(WriterCpus \div 2) :
              WF_vars(w \in Writers /\ p \in 1..nwriters /\ pollthread(w, p))
        /\ \A k \in 1..MaxWords :
              WF_vars(w \in Writers /\ k \in 1..Len(flushes[w]) /\ flushthread(w, k))

SpecFault == InitFault /\ [][NextFault]_vars /\ FairFault

-----------------------------------------------------------------------------
(* index_tokenset called on its own, on any small set of non-empty tokens and
   an empty root directory *)

\* the token sets, the empty one included
TokenSets == {S \in SUBSET StagedTokens : Cardinality(S) <= MaxTrieTokens}

\* the state at the call index_tokenset(tokenset, root, npatriciarized_token_q)
InitTrie ==
    /\ platform \in {"posix", "nt"}
    /\ corpus = << >>
    /\ unreadable = {}
    /\ ncpu = Cpus
    /\ threshold = Threshold
    /\ pc = "index_tokenset"
    /\ tokstate = << >>
    /\ tokens = {}
    /\ ntokens = 0
    /\ nexamined = 0
    /\ writeQ = << >>
    /\ progressQ = 0
    /\ \E tokenset \in TokenSets :
          tasks = [c \in {"call"} |->
                      [started |-> TRUE,
                       stack |-> unwind(<<[tokenset |-> tokenset, root |-> << >>,
                                           inloop |-> FALSE]>>)]]
    /\ registered = {}
    /\ dirs = {<< >>}
    /\ indfiles = {}
    /\ tmpdir = [exists |-> FALSE, files |-> << >>]
    /\ movers = << >>
    /\ wlock = 0
    /\ wr = [w \in 1..(Cpus \div 2) |-> writer0]
    /\ polls = [id \in {<<w, q>> : w \in 1..(Cpus \div 2), q \in 1..(Cpus \div 2)} |-> poll0]
    /\ flushes = [w \in 1..(Cpus \div 2) |-> << >>]
    /\ crashed = ""
    /\ trie0 = [dirs |-> {}, files |-> {}]
    /\ arch = << >>
    /\ atasks = << >>
    /\ archive_path = [exists |-> FALSE, ext |-> << >>, members |-> << >>]
    /\ archopts = [compression |-> gz, fast |-> TRUE]
    /\ res = nores

\* the call runs up to its next os.makedirs
IndexTokenset ==
    /\ pc = "index_tokenset"
    /\ tasks["call"].stack # << >>
    /\ \E nextTok \in tasks["call"].stack[Len(tasks["call"].stack)].tokenset :
           index_tokenset("call", nextTok)
    /\ UNCHANGED <<cfgVars, orchVars, writerVars, moveVars, archVars,
                   writeQ, tmpdir, res>>

NextTrie == IndexTokenset

SpecTrie == InitTrie /\ [][NextTrie]_vars

-----------------------------------------------------------------------------
(* Properties *)

\* the token universe of the corpus: every token of every file
Universe == UNION {tokenize(f) : f \in DOMAIN corpus}

\* the lines that name the corpus files whose unique tokens contain t
sources(t) == {<<f>> : f \in {g \in DOMAIN corpus : t \in tokenize(g)}}

\* a query that is one lower-case word
isword(query) == query # << >> /\ as_tokens(query, FALSE) = <<query>>

\* the searcher the last search was made with
searched ==
    IF res.kind = "dir" THEN FileTreeSearcher(dirs, indfiles)
    ELSE TarFileSearcher(archive_path.members)

\* the trie is complete: every index_tokenset task has returned
built == pc \notin {"start", "tokenize"} /\ smrfready

C2_FuzzyIsPrefixUnion ==
    (res.kind = "dir" /\ res.op = "fuzzy_search" /\ isword(res.query))
        => res.out = UNION {match_words(FileTreeSearcher(dirs, indfiles), t, FALSE) :
                               t \in {u \in Universe : startswith(u, res.query)}}

\* what the searcher of the directory trie returned, or would have returned,
\* for the call that res records
ontrie ==
    LET S == FileTreeSearcher(trie0.dirs, trie0.files)
    IN  IF res.op = "fuzzy_search" THEN fuzzy_search(S, res.query, res.inclusive)
        ELSE IF res.op = "match_words" THEN match_words(S, res.query, res.inclusive)
        ELSE match_phrase(S, res.query, res.fuzzy)

\* C3: fuzzy_search, match_words and match_phrase return over the archive what
\* they return over the directory trie the archive was folded from.
C3_ArchiveEquivalence == res.kind = "tar" => res.out = ontrie

\* the phrase q1..qn is in the token list T: at some position the first n-1
\* tokens are equal and the last is equal to qn, or starts with qn when fuzzy
occurs(T, q, fuzzy) ==
    \E x \in 0..(Len(T) - Len(q)) :
        /\ SubSeq(T, x + 1, x + Len(q) - 1) = Take(q, Len(q) - 1)
        /\ IF fuzzy THEN startswith(T[x + Len(q)], q[Len(q)])
           ELSE T[x + Len(q)] = q[Len(q)]

\* C4: match_phrase for a query of several tokens keeps a candidate source if
\* and only if the phrase occurs in the ordered token list of the source, the
\* position of the last tokens of the file included.
C4_PhraseFilter ==
    (res.op = "match_phrase" /\ Len(as_tokens(res.query, FALSE)) > 1)
        => res.out = {src \in candidates(searched, res.query, res.fuzzy) :
                         /\ readable(src)
                         /\ occurs(as_tokens(corpus[src[1]], FALSE),
                                   as_tokens(res.query, FALSE), res.fuzzy)}

\* the index files of an archive, at every depth
RECURSIVE inds(_)
inds(members) ==
    UNION {IF istar(members[i].name) THEN inds(members[i].members) ELSE {members[i]} :
              i \in 1..Len(members)}

\* C5: over the archive, match_words for a token t returns the lines of the
\* index member whose stem is t, and nothing when there is no such member.
C5_ExactResolver ==
    (res.kind = "tar" /\ res.op = "match_words" /\ isword(res.query))
        => res.out = UNION {Range(splitlines(m.text)) :
                               m \in {x \in inds(archive_path.members) :
                                         stemtoken(x.name) = res.query}}

C7_NoSiblingPrefix ==
    \A p, q \in dirs :
        (p # q /\ p # << >> /\ q # << >> /\ parent(p) = parent(q))
            => p[Len(p)][1] # q[Len(q)][1]

C7_Witness ==
    /\ pc = "move"
    /\ \E n \in DOMAIN movers : movers[n] = "done"
    /\ \E p, q \in dirs : p # q /\ Len(p) > 1 /\ Len(q) > 1 /\ parent(p) = parent(q)

\* C8: the builder registers tokens of the universe only, and when it has
\* finished it has registered every token of the universe.
C8_LosslessRegistration ==
    /\ registered \subseteq Universe
    /\ built => registered = Universe

C8_Witness ==
    /\ pc = "wait_writers"
    /\ Cardinality(registered) = 3
    /\ \E t, u \in registered : t # u /\ startswith(u, t)

\* C9: on the trie as the builder left it, patricia_path for a token of the
\* universe returns the node that spells the token as target and as closest,
\* and no correction.
C9_PatriciaPathIdempotent ==
    (built /\ pc \in {"build_outer", "build_inner", "wait_writers", "move",
                      "indexed", "searched"})
        => \A t \in Universe :
              /\ patricia_path(t, dirs).target = patricia_path(t, dirs).closest
              /\ patricia_path(t, dirs).target \in dirs
              /\ spelled(patricia_path(t, dirs).target) = t
              /\ patricia_path(t, dirs).correction = None

C9_Witness ==
    /\ pc = "move"
    /\ \E n \in DOMAIN movers : movers[n] = "done"
    /\ platform = "nt"
    /\ Universe \cap reserved_names # {}
    /\ Cardinality(Universe) >= 2

\* a writer is spilling: between the acquisition of writer_lock and its release
spilling(w) == wr[w].pc \in {"popping", "flushing", "final"}

\* a flush task has its staging file open
appending(w, k) == flushes[w][k].pc \in {"open", "newline", "closing"}

\* the flush tasks of the writers' last starmap calls
FlushIds == UNION {{<<w, k>> : k \in 1..Len(flushes[w])} : w \in Writers}

\* every line of the text is one source path, with its end of line
wholelines(text) ==
    /\ Len(text) % 2 = 0
    /\ \A i \in 1..Len(text) : IF i % 2 = 1 THEN text[i] \in DOMAIN corpus
                                ELSE text[i] = "\n"

\* no two writers spill at the same time, and a writer spills with writer_lock
WriterMutex ==
    \A w \in Writers :
        spilling(w) => wlock = w /\ \A v \in Writers \ {w} : ~spilling(v)

\* no two flush tasks have the same staging file open
NoOverlap ==
    \A i, j \in FlushIds :
        (i # j /\ appending(i[1], i[2]) /\ appending(j[1], j[2]))
            => flushes[i[1]][i[2]].tok # flushes[j[1]][j[2]].tok

\* a staging file that no flush task has open holds whole lines
CompleteLines ==
    \A n \in DOMAIN tmpdir.files :
        (\A i \in FlushIds : appending(i[1], i[2]) => indname(flushes[i[1]][i[2]].tok) # n)
            => wholelines(tmpdir.files[n])

\* C10: no two writers spill at the same time: a spill at the threshold and the
\* spill of the residue run with writer_lock held, so that no two appends to one
\* staging file overlap and every line of a staging file is one source path.
C10_SerializedSpills == WriterMutex /\ NoOverlap /\ CompleteLines

\* what the main thread's popitem calls and the flush tasks do to the pending
\* map of writer w in a step: entries leave at the end of the map, sources
\* leave the IndFile objects, nothing enters
onlydrained(w) ==
    /\ \E n \in 0..Len(wr[w].pendingwrites) :
          wr'[w].pendingwrites = Take(wr[w].pendingwrites, n)
    /\ Len(wr'[w].objs) = Len(wr[w].objs)
    /\ \A i \in 1..Len(wr[w].objs) : wr'[w].objs[i].srcs \subseteq wr[w].objs[i].srcs

\* C11: while the admission gate of a writer is closed for a spill, no poll
\* thread of the writer inserts into its pending map or adds to an entry of
\* it: a poll thread that passed the gate before it closed does not insert
\* after the spill has begun.
C11_GateGuardsMap == [][\A w \in Writers : ~wr[w].greenlight => onlydrained(w)]_vars

\* every writer task has returned and the staging files are still in place
writersexited == pc = "wait_writers" /\ \A w \in Writers : wr[w].pc = "done"

\* the staging file of token t holds source f
staged(f, t) ==
    /\ indname(t) \in DOMAIN tmpdir.files
    /\ f \in Range(tmpdir.files[indname(t)])

\* C12: no posting is lost: when every writer has exited, the staging file of
\* every token of every published record holds the record's source, and a
\* writer that has finished its last spill has an empty pending map.
C12_NoPostingLost ==
    /\ writersexited => \A f \in DOMAIN corpus : \A t \in tokenize(f) : staged(f, t)
    /\ \A w \in Writers :
          (wr[w].pc = "final" /\ flushed(w))
              => /\ wr[w].pendingwrites = << >>
                 /\ \A i \in 1..Len(wr[w].objs) : wr[w].objs[i].srcs = {}

\* the copies of the sentinel in a queue
sentinels(q) == {i \in 1..Len(q) : q[i] = sentinel}

\* the poll threads that have taken the sentinel and not yet put it back
reposting == {id \in PollIds : polls[id].pc = "repost"}

\* C13: once the sentinel is on the queue every poll thread takes a sentinel,
\* puts it back once and returns: when all writers have exited every poll
\* thread has done so and one sentinel is left in the queue; no poll thread
\* takes the sentinel while a record is in the queue; there is never more than
\* one sentinel.
C13_SentinelProtocol ==
    /\ writersexited => /\ \A id \in PollIds : polls[id].pc = "done"
                        /\ writeQ = <<sentinel>>
    /\ \A id \in PollIds :
          polls[id].pc \in {"repost", "done"} => sentinels(writeQ) = DOMAIN writeQ
    /\ Cardinality(sentinels(writeQ)) + Cardinality(reposting) <= 1

\* the places of source f in the text of an index file
places(text, f) == {i \in 1..Len(text) : text[i] = f}

\* C14: in every index file, in the staging directory or in the trie, a
\* source appears at most once, also when the postings of the token were
\* written by several spills and by several writers.
C14_SourceOnce ==
    /\ \A n \in DOMAIN tmpdir.files : \A f \in DOMAIN corpus :
          Cardinality(places(tmpdir.files[n], f)) <= 1
    /\ \A file \in indfiles : \A f \in DOMAIN corpus :
          Cardinality(places(file.text, f)) <= 1

\* two writers have each taken the record of one file, and the staging file of
\* the word the files share holds both sources
C14_Witness ==
    /\ \E v, w \in Writers :
          /\ v # w
          /\ \E p \in 1..nwriters : polls[<<v, p>>].src = "f1"
          /\ \E p \in 1..nwriters : polls[<<w, p>>].src = "f2"
    /\ \E n \in DOMAIN tmpdir.files :
          places(tmpdir.files[n], "f1") # {} /\ places(tmpdir.files[n], "f2") # {}

\* the members of a tar file are in ascending order of their names, and so are
\* the members of every tar file among them
RECURSIVE inorder(_)
inorder(ms) ==
    /\ \A i \in 1..(Len(ms) - 1) : StrLess(ms[i].name, ms[i + 1].name)
    /\ \A i \in 1..Len(ms) : inorder(ms[i].members)

\* C15: in every archive archive() produces, the tar files still on disk
\* during the walks and the final archive alike, at every nesting level and
\* with fast true or false, the members come in lexicographic order of their
\* base names.
C15_MembersInOrder ==
    /\ \A p \in DOMAIN arch : inorder(arch[p].members)
    /\ inorder(archive_path.members)

\* a sequential archive() has made an archive whose tar file one level down
\* holds an index file and the tar file of a sub-directory
C15_Witness ==
    /\ archive_path.exists
    /\ ~archopts.fast
    /\ \E i \in 1..Len(archive_path.members) :
          LET ms == archive_path.members[i].members IN
          /\ Len(ms) >= 2
          /\ \E j, k \in 1..Len(ms) : ms[j].members = << >> /\ ms[k].members # << >>

\* the sub-directories a directory d had in the trie index_directory built
children(d) == {e \in trie0.dirs : Len(e) = Len(d) + 1 /\ Take(e, Len(d)) = d}

\* the index files that extracting the members ms into directory d, and every
\* tar file among them into the directory it was made from, puts on disk
RECURSIVE unpackedfiles(_, _)
unpackedfiles(ms, d) ==
    UNION {IF istar(ms[i].name)
           THEN unpackedfiles(ms[i].members, d \o <<Take(ms[i].name, find(ms[i].name, "."))>>)
           ELSE {[dir |-> d, name |-> ms[i].name, text |-> ms[i].text]} :
              i \in 1..Len(ms)}

\* and the directories it makes
RECURSIVE unpackeddirs(_, _)
unpackeddirs(ms, d) ==
    {d} \cup UNION {unpackeddirs(ms[i].members, d \o <<Take(ms[i].name, find(ms[i].name, "."))>>) :
                       i \in {j \in 1..Len(ms) : istar(ms[j].name)}}

\* a step that archives directory d: its sub-directories are tar files on disk
\* already; the tar file made has one member per index file of d and one per
\* sub-directory, under their base names; the files, the sub-directories' tar
\* files and d are gone from the disk after it
consumes(d) ==
    LET made == IF d = << >> THEN archive_path'.members ELSE arch'[d].members
        files == {f \in trie0.files : f.dir = d}
    IN  /\ children(d) \subseteq DOMAIN arch
        /\ \A e \in dirs : ~(Len(e) > Len(d) /\ Take(e, Len(d)) = d)
        /\ {made[i].name : i \in 1..Len(made)}
              = {f.name : f \in files} \cup {e[Len(e)] \o arch[e].ext : e \in children(d)}
        /\ Len(made) = Cardinality(files) + Cardinality(children(d))
        /\ \A f \in files : \E i \in 1..Len(made) :
              made[i].name = f.name /\ made[i].text = f.text
        /\ \A e \in children(d) : \E i \in 1..Len(made) : made[i].members = arch[e].members
        /\ \A f \in indfiles' : f.dir # d
        /\ children(d) \cap DOMAIN arch' = {}
        /\ d \notin dirs'

\* the archive of the whole index holds the trie, and nothing of the trie is
\* left on disk
preserved ==
    (pc = "archived" /\ archive_path.exists)
        => /\ dirs = {} /\ indfiles = {} /\ arch = << >>
           /\ unpackedfiles(archive_path.members, << >>) = trie0.files
           /\ unpackeddirs(archive_path.members, << >>) = trie0.dirs

\* C16: archiving consumes the directory tree bottom-up and preserves the
\* trie: a directory is archived only after all of its sub-directories; its
\* tar file holds, by base name, exactly its regular files and one tar file
\* per immediate sub-directory; what was added and the directory itself,
\* the index root included, are no longer on disk afterwards.
C16_BottomUp ==
    [][/\ \A d \in dirs : (pc = "archiving" /\ d \notin dirs') => consumes(d)
       /\ preserved']_vars

\* a parallel archive() with bz2 has made an archive that holds a tar file
\* which holds a tar file
C16_Witness ==
    /\ archive_path.exists
    /\ archopts.fast
    /\ archopts.compression = bz2
    /\ \E i \in 1..Len(archive_path.members) :
          \E j \in 1..Len(archive_path.members[i].members) :
              archive_path.members[i].members[j].members # << >>

\* the extension the claim gives the archives made with a compression:
\* .tar, .tar.gz, .tar.bz2 or .tar.xz
extension(compression) ==
    <<".", "t", "a", "r">> \o (IF compression = << >> THEN << >> ELSE <<".">> \o compression)

\* every tar file among the members ms, at any depth, has a name that ends in ext
RECURSIVE nestedext(_, _)
nestedext(ms, ext) ==
    \A i \in 1..Len(ms) :
        istar(ms[i].name) => endswith(ms[i].name, ext) /\ nestedext(ms[i].members, ext)

\* C17: for each compression archive() accepts (none, gz, bz2, xz) and both
\* values of fast, archive() makes its archives, and the archive of every
\* directory at every level, the index root included, carries the extension
\* of the chosen compression, so a nested archive has the extension of its
\* parent.
C17_ChosenExtension ==
    LET ext == extension(archopts.compression) IN
    /\ crashed # "ValueError"
    /\ \A p \in DOMAIN arch : arch[p].ext = ext /\ nestedext(arch[p].members, ext)
    /\ archive_path.exists
          => archive_path.ext = ext /\ nestedext(archive_path.members, ext)

\* the files of the trie that carry the name of a staging file
landed(name) == {f \in indfiles : f.name = name}

\* C18: at a successful exit of index_directory, whatever the order of the
\* parallel movers, every staging file has been moved to exactly one trie
\* node: none is left in the staging directory, none is at two nodes, and the
\* staging directory no longer exists.
C18_AllMovedOnce ==
    /\ pc = "move" =>
          \A name \in DOMAIN movers :
              /\ movers[name] = "queued"
                    => name \in DOMAIN tmpdir.files /\ landed(name) = {}
              /\ movers[name] \in {"moved", "done"}
                    => name \notin DOMAIN tmpdir.files /\ Cardinality(landed(name)) = 1
    /\ pc = "indexed" =>
          /\ ~tmpdir.exists
          /\ tmpdir.files = << >>
          /\ \A name \in DOMAIN movers :
                movers[name] = "done" /\ Cardinality(landed(name)) = 1
          /\ \A f \in indfiles : f.name \in DOMAIN movers

\* index_directory has returned after three movers moved their files to three
\* nodes of the trie
C18_Witness ==
    /\ pc = "indexed"
    /\ Cardinality(DOMAIN movers) >= 3
    /\ Cardinality({f.dir : f \in indfiles}) >= 3

\* no directory of D has two sub-directories whose names begin alike
nosharedprefix(D) ==
    \A p, q \in D :
        (p # q /\ p # << >> /\ q # << >> /\ parent(p) = parent(q))
            => p[Len(p)][1] # q[Len(q)][1]

\* the mover of the staged file called name meets a correction: its token
\* has no node of its own and patricia_path names a closest directory to split
corrected(name) ==
    /\ pc = "move"
    /\ name \in DOMAIN movers
    /\ movers[name] = "queued"
    /\ patricia_path(stemtoken(name), dirs).correction # None

\* C19: when patricia_path returns a correction for the token of a staged
\* file, the mover splits the closest directory, which is renamed to the
\* corrected path under the new intermediate directory, and moves the file;
\* afterwards the file is at target/<token>_.ind and no directory of the trie
\* has two sub-directories that begin with the same character.
C19_SplitThenMove ==
    [][\A name \in DOMAIN movers :
          (corrected(name) /\ movers'[name] # "queued")
              => LET pp == patricia_path(stemtoken(name), dirs) IN
                 /\ movers'[name] = "moved"
                 /\ pp.closest \notin dirs'
                 /\ pp.correction \in dirs'
                 /\ pp.target \in dirs'
                 /\ [dir |-> pp.target, name |-> name, text |-> tmpdir.files[name]]
                        \in indfiles'
                 /\ nosharedprefix(dirs')]_vars

\* the tokens of the last query, each once
querytokens == Range(as_tokens(res.query, FALSE))

\* the source set of one token: what the last search's function returns, over
\* the same index, for the token alone
pertoken(t) ==
    IF res.op = "fuzzy_search" THEN fuzzy_search(searched, t, res.inclusive)
    ELSE match_words(searched, t, res.inclusive)

\* C20: over the directory trie and over the archive, fuzzy_search and
\* match_words return the union of the source sets of the query's tokens when
\* inclusive is true and their intersection when it is false; a token repeated
\* in the query counts once, and a query without tokens returns the empty set.
C20_UnionOrIntersection ==
    res.op \in {"fuzzy_search", "match_words"}
        => res.out = IF querytokens = {} THEN {}
                     ELSE IF res.inclusive THEN UNION {pertoken(t) : t \in querytokens}
                     ELSE {src \in UNION {pertoken(t) : t \in querytokens} :
                              \A t \in querytokens : src \in pertoken(t)}

\* an exclusive fuzzy_search over the archive for two tokens returned sources,
\* and fewer than the two tokens' sets hold together
C20_Witness ==
    /\ res.kind = "tar"
    /\ res.op = "fuzzy_search"
    /\ ~res.inclusive
    /\ Cardinality(querytokens) = 2
    /\ res.out # {}
    /\ res.out # UNION {pertoken(t) : t \in querytokens}

\* C21: on a corpus that yields no token (no file, or files without a word)
\* index_directory completes, leaves an empty trie, and every search made
\* afterwards returns the empty set.
C21_EmptyCorpus ==
    Universe = {}
        => /\ crashed = ""
           /\ pc \in {"indexed", "searched"} => dirs \subseteq {<< >>} /\ indfiles = {}
           /\ res.out = {}

\* the result lines that name the files of S
named(S) == {<<f>> : f \in S}

\* C22: on the corpus a.txt = "good morning friend", b.txt = "good evening",
\* c.txt = "Good Morning, world!", over the directory trie and over the
\* archive: match_words("good") = {a, b, c}, match_words("morning") = {a, c},
\* match_words("good evening") = {b}, match_phrase("good morning", fuzzy) =
\* {a, c}, match_phrase("morning good", not fuzzy) = {}, and
\* fuzzy_search("mor") = {a, c}.
C22_WorkedExample ==
    /\ (res.op = "match_words" /\ res.query = good)
          => res.out = named({"a.txt", "b.txt", "c.txt"})
    /\ (res.op = "match_words" /\ res.query = morning)
          => res.out = named({"a.txt", "c.txt"})
    /\ (res.op = "match_words" /\ res.query = good \o <<" ">> \o evening)
          => res.out = named({"b.txt"})
    /\ (res.op = "match_phrase" /\ res.query = good \o <<" ">> \o morning /\ res.fuzzy)
          => res.out = named({"a.txt", "c.txt"}) /\ ~res.raised
    /\ (res.op = "match_phrase" /\ res.query = morning \o <<" ">> \o good /\ ~res.fuzzy)
          => res.out = {} /\ ~res.raised
    /\ (res.op = "fuzzy_search" /\ res.query = Take(morning, 3))
          => res.out = named({"a.txt", "c.txt"})

\* the trie and the index files index_directory leaves are those of
\* InitIndexed: the directories one sequential index_tokenset makes for the
\* whole token set, and for every token one file on its node that lists the
\* files holding the token, each once
indexedlike ==
    /\ dirs = grown(unique_tokens(corpus), << >>)
    /\ \A t \in unique_tokens(corpus) :
          \E f \in indfiles :
              /\ f.dir = patricia_path(t, dirs).target
              /\ f.name = indname(t)
              /\ \E o \in orders(holders(corpus, t)) : f.text = printed(o)
    /\ Cardinality(indfiles) = Cardinality(unique_tokens(corpus))
    /\ ~tmpdir.exists

\* the phrase "good morning" has been searched for in the archive, fuzzy, and
\* a.txt and c.txt were returned
C22_Witness ==
    /\ res.kind = "tar"
    /\ res.op = "match_phrase"
    /\ res.fuzzy
    /\ res.query = good \o <<" ">> \o morning
    /\ res.out = named({"a.txt", "c.txt"})

\* the corpus without the files that cannot be read
readable_corpus == [f \in DOMAIN corpus \ unreadable |-> corpus[f]]

\* C23: a corpus file that cannot be read is skipped and the build goes on to
\* a successful exit: no record for the file is put on the queue, its tokens
\* do not enter the token set, and the other files are indexed as if the
\* file were absent.
C23_UnreadableSkipped ==
    /\ crashed # "OSError"
    /\ \A i \in 1..Len(writeQ) : writeQ[i].src \notin unreadable
    /\ tokens \subseteq unique_tokens(readable_corpus)
    /\ pc = "indexed" => dirs = grown(unique_tokens(readable_corpus), << >>)

\* C24: the factory Searcher returns a filesystem searcher for a directory
\* and an archive searcher for a tar file; for any other path, a regular file
\* that is no tar file or a path with nothing at it, it fails with an error
\* that reaches the caller and returns no value.
C24_FactoryFails ==
    res.op = "Searcher"
        => /\ res.was = "dir" => res.kind = "dir" /\ ~res.raised
           /\ res.was = "tar" => res.kind = "tar" /\ ~res.raised
           /\ res.was \in {"file", "missing"} => res.raised

\* where the descent of the trie D for the rest rem of a token stops, from the
\* directory curr on: at curr when no child of curr starts with the first
\* character of rem ("nochild"), at the child d that shares only the proper
\* prefix cp of its name with rem ("split"), or on the node that spells the
\* token ("node")
RECURSIVE descent(_, _, _)
descent(D, curr, rem) ==
    LET ds == {x \in listdirs(D, curr) : x[1] = rem[1]}
        d == CHOOSE x \in ds : TRUE
        cp == commonprefix({rem, d})
    IN  IF ds = {}
        THEN [kind |-> "nochild", curr |-> curr, rem |-> rem, d |-> << >>, cp |-> << >>]
        ELSE IF cp # d
        THEN [kind |-> "split", curr |-> curr, rem |-> Drop(rem, Len(cp)), d |-> d, cp |-> cp]
        ELSE IF cp = rem
        THEN [kind |-> "node", curr |-> Append(curr, d), rem |-> << >>, d |-> d, cp |-> cp]
        ELSE descent(D, Append(curr, d), Drop(rem, Len(cp)))

\* the stop of the descent for the token of the recorded patricia_path call
stop == descent(dirs, << >>, res.query)

\* the path is the path q with some of its components split in two or more
splitof(path, q, under) ==
    /\ Len(path) >= Len(q)
    /\ Take(path, under) = Take(q, under)
    /\ spelled(path) = spelled(q)
    /\ \A i \in (under + 1)..Len(path) : path[i] \notin reserved_names

\* parent/cp/d[|cp|:]
apart(s) == join(Append(s.curr, s.cp), Drop(s.d, Len(s.cp)))

\* C25: for every token and every trie of the trie invariants, patricia_path
\* returns a target whose components spell the token and a closest that is an
\* existing directory; a correction is returned exactly when the matching
\* child d shares only a proper prefix cp with the rest of the token, and is
\* then parent/cp/d[|cp|:]; when no child starts with the first character of
\* the rest, closest is the current directory and target is curr/rest.
C25_PathContract ==
    res.op = "patricia_path"
        => /\ spelled(res.path.target) = res.query
           /\ res.path.closest \in dirs
           /\ res.path.correction # None <=> stop.kind = "split"
           /\ stop.kind = "split" => res.path.correction = apart(stop)
           /\ stop.kind = "nochild"
                => /\ res.path.closest = stop.curr
                   /\ res.path.target = Append(stop.curr, stop.rem)

\* C25 with the paths as safeguard_path leaves them: on a Windows-family
\* system the correction and the target are the paths of the claim with every
\* reserved component split, below the directory the descent stopped at; on
\* POSIX they are the paths of the claim.
C25_PathContractSafeguarded ==
    res.op = "patricia_path"
        => /\ spelled(res.path.target) = res.query
           /\ res.path.closest \in dirs
           /\ res.path.correction # None <=> stop.kind = "split"
           /\ stop.kind = "split"
                => IF platform = "posix" THEN res.path.correction = apart(stop)
                   ELSE splitof(res.path.correction, apart(stop), Len(stop.curr))
           /\ stop.kind = "nochild"
                => /\ res.path.closest = stop.curr
                   /\ IF platform = "posix"
                      THEN res.path.target = Append(stop.curr, stop.rem)
                      ELSE splitof(res.path.target, Append(stop.curr, stop.rem),
                                   Len(stop.curr))

C25_Witness ==
    /\ res.op = "patricia_path" /\ stop.kind = "split" /\ platform = "nt"
    /\ res.path.correction # apart(stop)

\* the name is reserved on the platform of the run
reservedname(name) == platform = "nt" /\ name \in reserved_names

\* C26: safeguard_path returns absence or a path in which no component is a
\* reserved name and whose components concatenate to the same string as the
\* components of its input; applied to its result it changes nothing; and a
\* token that is a reserved name is indexed and found: patricia_path on the
\* built trie returns target = closest for it.
C26_SafeguardedPath ==
    /\ res.op = "safeguard_path"
         => \/ res.safepath = None
            \/ /\ \A i \in 1..Len(res.safepath) : ~reservedname(res.safepath[i])
               /\ spelled(res.safepath) = spelled(res.path)
               /\ safeguard_path(res.safepath) = res.safepath
    /\ (res.op = "patricia_path" /\ res.query \in Universe /\ reservedname(res.query))
         => /\ res.path.target = res.path.closest
            /\ res.path.target \in dirs

\* C26 for the paths of which at most the last component is a reserved name
C26_LastComponent ==
    (/\ res.op = "safeguard_path"
     /\ \A i \in 1..(Len(res.path) - 1) : ~reservedname(res.path[i]))
        => /\ \A i \in 1..Len(res.safepath) : ~reservedname(res.safepath[i])
           /\ spelled(res.safepath) = spelled(res.path)
           /\ safeguard_path(res.safepath) = res.safepath

\* a reserved name was the last component, and a reserved token was looked up
C26_LastSplit ==
    /\ res.op = "safeguard_path" /\ res.path # << >>
    /\ reservedname(res.path[Len(res.path)]) /\ Len(res.path) = 2
    /\ ~reservedname(res.path[1])

C26_ReservedFound ==
    res.op = "patricia_path" /\ res.query \in Universe /\ reservedname(res.query)

\* a character that separates tokens
separator(c) == isspace(c) \/ c \in punctuation

\* the words of a text read character by character, cur being the word read
\* so far: a separator ends the word, a character that is not printable is
\* passed over, any other character joins the word in its folded case
RECURSIVE scanned(_, _)
scanned(text, cur) ==
    IF text = << >> THEN (IF cur = << >> THEN << >> ELSE <<cur>>)
    ELSE IF separator(text[1])
    THEN (IF cur = << >> THEN << >> ELSE <<cur>>) \o scanned(Tail(text), << >>)
    ELSE IF ~isprintable(text[1]) THEN scanned(Tail(text), cur)
    ELSE scanned(Tail(text), Append(cur, casefold(text[1])))

\* C27: every token as_tokens produces is non-empty, has no whitespace, no
\* punctuation and no non-printable character, and is case-folded; with
\* unique=False the tokens come in order of appearance with duplicates, with
\* unique=True they are the set of those; a text of punctuation and whitespace
\* only yields no token.
C27_Tokens ==
    res.op = "as_tokens"
        => /\ \A i \in 1..Len(res.tokens) :
                /\ res.tokens[i] # << >>
                /\ \A k \in 1..Len(res.tokens[i]) :
                     LET c == res.tokens[i][k]
                     IN  /\ ~isspace(c) /\ c \notin punctuation /\ isprintable(c)
                         /\ casefold(c) = c
           /\ res.tokens = scanned(res.text, << >>)
           /\ res.unique_tokens = {res.tokens[i] : i \in 1..Len(res.tokens)}
           /\ (\A k \in 1..Len(res.text) : separator(res.text[k])) => res.tokens = << >>

C27_Witness ==
    /\ res.op = "as_tokens"
    /\ Len(res.tokens) = 2 /\ res.tokens[1] = res.tokens[2]
    /\ Cardinality(res.unique_tokens) = 1
    /\ \E k \in 1..Len(res.text) : res.text[k] = "B"
    /\ \E k \in 1..Len(res.text) : res.text[k] \in punctuation

\* every corpus file's broadcast_tokens has put its record on the queue
allbroadcast == \A f \in DOMAIN corpus : tokstate[f] # "queued"

\* the trie skeleton is complete: every group has a task and every task has
\* returned
skeleton ==
    /\ pc \notin {"start", "tokenize"}
    /\ \A c \in DOMAIN tasks : tasks[c].started /\ tasks[c].stack = << >>

\* C28: a step puts the sentinel on the queue only when every tokenization
\* record has been enqueued and the trie skeleton is complete, and a step
\* moves a postings file into the trie only when every writer worker has
\* exited and every trie-building task has finished.
C28_PhaseOrder ==
    [][/\ Cardinality(sentinels(writeQ')) > Cardinality(sentinels(writeQ))
            => allbroadcast /\ skeleton
       /\ indfiles' \ indfiles # {}
            => (\A w \in Writers : wr[w].pc = "done") /\ skeleton]_vars

C28_Witness ==
    /\ pc = "move" /\ indfiles # {}
    /\ \E n \in DOMAIN movers : movers[n] = "queued"
    /\ Cardinality(DOMAIN tasks) = 2

\* the directories below the index root whose path begins with character c
below(D, c) == {p \in D : p # << >> /\ p[1][1] = c}

RECURSIVE packed(_, _, _, _)
packed(D, F, d, compression) ==
    LET ms == {indmember(f) : f \in {g \in F : g.dir = d}}
              \cup {tarmember(e, tarsuffix(compression),
                              packed(D, F, Append(d, e), compression)) :
                       e \in listdirs(D, d)}
        names == sorted({m.name : m \in ms})
    IN  [i \in 1..Len(names) |-> CHOOSE m \in ms : m.name = names[i]]

\* the archive archive(fast=False) makes of the trie index_directory built:
\* the one walk of self._archive(root)
sequential ==
    [exists |-> TRUE, ext |-> tarsuffix(walkcompression([archopts EXCEPT !.fast = FALSE], << >>)),
     members |-> packed(trie0.dirs, trie0.files, << >>,
                        walkcompression([archopts EXCEPT !.fast = FALSE], << >>))]

\* the step archives the index root
toplevel == ~archive_path.exists /\ archive_path'.exists

\* the first-level sub-tree a directory below the root belongs to
subtree(d) == d[1]

\* C30: with fast=True the top-level archive step is taken only when every
\* first-level sub-tree task has completed, the directories of a sub-tree are
\* archived by the one task of the sub-tree, and the archive made has the
\* member names, the nesting and the member order, at every level, of the
\* archive fast=False makes.
C30_FastAsSequential ==
    /\ [][archopts.fast
             => /\ toplevel => \A c \in children(<< >>) :
                                   c[1] \in DOMAIN atasks /\ atasks[c[1]] = "done"
                /\ \A d \in (dirs \ dirs') \ {<< >>} :
                      /\ atasks'[subtree(d)] # "queued"
                      /\ \A c \in DOMAIN atasks \ {subtree(d)} : atasks'[c] = atasks[c]]_vars
    /\ []((archopts.fast /\ pc = "archived" /\ archive_path.exists)
             => archive_path = sequential)

\* the same, for the archive archive(fast=False) makes
C30_SequentialWalk ==
    (~archopts.fast /\ pc = "archived" /\ archive_path.exists) => archive_path = sequential

\* the same as C30, for the default compression
C30_FastAsSequentialGz ==
    /\ [][archopts.fast
             => /\ toplevel => \A c \in children(<< >>) :
                                   c[1] \in DOMAIN atasks /\ atasks[c[1]] = "done"
                /\ \A d \in (dirs \ dirs') \ {<< >>} :
                      /\ atasks'[subtree(d)] # "queued"
                      /\ \A c \in DOMAIN atasks \ {subtree(d)} : atasks'[c] = atasks[c]]_vars
    /\ []((archopts.fast /\ archopts.compression = gz /\ pc = "archived"
              /\ archive_path.exists)
             => archive_path = sequential)

\* the index_tokenset tasks have returned and the archiver has not started
trieBuilt == skeleton /\ pc \in {"wait_writers", "move", "indexed"}

\* the rests, below directory d, of the tokens of the universe that begin
\* with the string s
residuals(d, s) == {Drop(t, Len(spelled(d))) : t \in {u \in Universe : startswith(u, s)}}

\* directory p spells a token or has two sub-directories or more
compressed(p) == spelled(p) \in Universe \/ Cardinality(listdirs(dirs, p)) >= 2

\* the name of directory p is the longest common prefix of the rests of the
\* tokens beneath it
edgeislcp(p) == p[Len(p)] = commonprefix(residuals(parent(p), spelled(p)))

\* C31: in the built trie every directory other than the index root spells a
\* token of the universe or has at least two sub-directories, and its name is
\* the longest common prefix of the rests of the tokens beneath it.
C31_CompressedTrie ==
    trieBuilt => \A p \in dirs \ {<< >>} : compressed(p) /\ edgeislcp(p)

\* directory p is the first character of a reserved name safeguard_path
\* split, its one sub-directory being the rest of the name
splithead(p) ==
    /\ platform = "nt"
    /\ spelled(p) \notin Universe
    /\ \E rest \in listdirs(dirs, p) :
          listdirs(dirs, p) = {rest} /\ p[Len(p)] \o rest \in reserved_names

\* C31 with the two directories of a split reserved name taken as the one
\* directory of that name: on a Windows-family system the first character of
\* a split name is a directory with one sub-directory, the rest of the name,
\* and the two names together are the longest common prefix; every other
\* directory is as the claim has it.
C31_CompressedBelowSplits ==
    trieBuilt
        => \A p \in dirs \ {<< >>} :
              IF splithead(p)
              THEN \A rest \in listdirs(dirs, p) :
                      p[Len(p)] \o rest = commonprefix(residuals(parent(p), spelled(p)))
              ELSE IF parent(p) # << >> /\ splithead(parent(p))
              THEN compressed(p)
              ELSE compressed(p) /\ edgeislcp(p)

\* a built trie with a split reserved name next to a directory of two
\* sub-directories
C31_Witness ==
    /\ trieBuilt /\ platform = "nt"
    /\ \E p \in dirs \ {<< >>} : splithead(p)
    /\ Cardinality(dirs) >= 4

\* the progress increments made so far: those waiting on the progress queue
\* and those the orchestrator has added to its tally
increments == progressQ + nexamined

\* the orchestrator is in its progress loop
building == pc \in {"build_outer", "build_inner"}

\* C32: during the trie build a step puts one progress increment exactly when
\* it registers a token not registered before, so that when every task has
\* returned the increments number the distinct tokens of the universe; the
\* orchestrator's tally never decreases and never exceeds that number.
C32_OneIncrementPerToken ==
    /\ [][building
             => /\ increments' - increments = Cardinality(registered' \ registered)
                /\ increments' - increments \in {0, 1}
                /\ registered \subseteq registered'
                /\ nexamined' >= nexamined]_vars
    /\ [](building => /\ nexamined <= Cardinality(Universe)
                      /\ increments = Cardinality(registered)
                      /\ skeleton => increments = Cardinality(Universe))

\* the build of three tokens is over and the tally has counted some of them
C32_Witness ==
    /\ building /\ skeleton
    /\ Cardinality(Universe) = 3
    /\ nexamined >= 1 /\ progressQ >= 1

\* the sum of the numbers n[i] of a sequence
RECURSIVE total(_)
total(n) == IF n = << >> THEN 0 ELSE n[1] + total(Tail(n))

\* the (token, source) entries writer w holds in pendingwrites
pending(w) ==
    total([i \in 1..Len(wr[w].pendingwrites) |->
              Cardinality(wr[w].objs[wr[w].pendingwrites[i].id].srcs)])

\* the entries of the records the poll threads of writer w have taken from
\* the queue and not yet added to nwaiting
inflight(w) ==
    total([p \in 1..nwriters |->
              IF polls[<<w, p>>].pc \in {"idle", "get", "repost", "done"} THEN 0
              ELSE polls[<<w, p>>].nentries])

\* C33: in every state the entries a writer holds in its pending map number
\* at most the threshold plus the entries of the records in flight in its
\* poll threads, also while another writer holds the writer mutex.
C33_ThresholdBounds ==
    \A w \in Writers : pending(w) <= threshold + inflight(w)

\* a writer is over the bound while another writer holds the mutex
C33_OverWhileLocked ==
    \E w \in Writers :
        /\ pending(w) > threshold + inflight(w)
        /\ wlock \notin {0, w}
        /\ wr[w].pc = "loop"

\* C34: archive(keep_originals=True) returns the path of the archive it made
\* of a copy of the file tree, and the directory trie at root is as it was:
\* the same directories and the same index files with the same contents.
C34_KeepOriginals ==
    (res.op = "archive" /\ res.keep_originals)
        => /\ ~res.raised /\ crashed = ""
           /\ archive_path.exists
           /\ dirs = trie0.dirs /\ indfiles = trie0.files

\* the trie is as it was after the call, whatever the call did
C34_TrieUntouched ==
    (res.op = "archive" /\ res.keep_originals)
        => dirs = trie0.dirs /\ indfiles = trie0.files

\* the record of corpus file f is on the queue
onqueue(f) == \E i \in 1..Len(writeQ) : writeQ[i].src = f

\* C35: on a machine of any number of logical CPUs index_directory has at
\* least one writer worker, each with at least one poll thread, so that every
\* record put on the queue is taken from it in the end and the staging
\* directory exists when the movers start: listing it does not fail.
C35_WritersForEveryCpuCount ==
    /\ [](nwriters >= 1)
    /\ [](crashed # "FileNotFoundError")
    /\ \A f \in Files : onqueue(f) ~> ~onqueue(f)

\* the same for the machines of two logical CPUs or more
C35_FromTwoCpus ==
    ncpu >= 2 => nwriters >= 1 /\ crashed # "FileNotFoundError"

\* one logical CPU: no writer, and the listing of the staging directory failed
C35_OneCpu == ncpu = 1 /\ crashed = "FileNotFoundError"

\* the writers and the poll threads of the machine of WriterCpus logical CPUs
FaultWriters == 1..(WriterCpus \div 2)

\* writer w has closed its admission gate
gateclosed(w) == w \in Writers /\ ~wr[w].greenlight

\* poll thread p of writer w waits in greenlight.wait()
atgate(w, p) == w \in Writers /\ p \in 1..nwriters /\ polls[<<w, p>>].pc = "wait"

\* writer w has left its loop and waits for the writer mutex of its final spill
atfinal(w) == w \in Writers /\ wr[w].pc = "loop" /\ pollsready(w)

\* the writer protocol does not block
unblocked ==
    \A w \in FaultWriters :
        /\ gateclosed(w) ~> (wr[w].greenlight /\ wlock # w)
        /\ \A p \in FaultWriters : atgate(w, p) ~> ~atgate(w, p)
        /\ atfinal(w) ~> (wr[w].pc = "final" /\ wlock = w)

\* C36: the writer protocol cannot block forever: a closed admission gate is
\* reopened in the end and the writer mutex released, also when a flush task of
\* the spill fails; a poll thread that waits at the gate is admitted in the
\* end, and a writer that waits for the mutex of its final spill gets it.
C36_NeverBlocksForever == unblocked

\* no flush task has failed
nofailure == \A w \in Writers : \A k \in 1..Len(flushes[w]) : flushes[w][k].pc # "failed"

\* the same in the runs in which no flush task fails
C36_WithoutFailure == []nofailure => unblocked

\* a spill has ended with the exception of a flush task: the gate is closed
\* and the mutex held by a writer that has returned
C36_SpillFailed ==
    \E w \in Writers : wr[w].pc = "raised" /\ ~wr[w].greenlight /\ wlock = w

\* once a spill has ended so, the gate stays closed and the mutex held
C36_StaysBlocked ==
    [][\A w \in Writers :
          (wr[w].pc = "raised" /\ ~wr[w].greenlight /\ wlock = w)
              => (wr'[w].pc = "raised" /\ ~wr'[w].greenlight /\ wlock' = w)]_vars

\* the orchestrator has left the progress loop and reported the structure build
reported == pc = "wait_writers"

\* C37: when the orchestrator has left its progress loop and reported the
\* structure build as finished, it has taken every progress increment: the
\* tally is the number of distinct tokens and the progress queue is empty.
C37_TallyComplete == reported => nexamined = ntokens /\ progressQ = 0

\* increments are never lost: what the tally lacks is still on the queue
C37_NothingLost == reported => nexamined + progressQ = ntokens

\* the build was reported as finished with increments left on the queue
C37_LeftOnQueue == reported /\ progressQ >= 1 /\ nexamined < ntokens

\* the characters of the tokens of a set, and of the sets of a stack of calls
RECURSIVE chars(_)
chars(S) ==
    IF S = {} THEN 0
    ELSE LET t == CHOOSE x \in S : TRUE IN Len(t) + chars(S \ {t})

RECURSIVE weight(_)
weight(stack) ==
    IF stack = << >> THEN 0
    ELSE chars(Head(stack).tokenset) + weight(Tail(stack))

\* the recursive call the running call makes next, when its loop pops nextTok:
\* what the caller holds, what it hands down, and what the callee's own
\* recursive call receives
nextcall(top, nextTok) ==
    LET cp == commonprefix(top.tokenset)
        direct == ~top.inloop /\ cp # << >>
        gen == IF direct THEN top.tokenset ELSE nextGen(top.tokenset, nextTok)
    IN  [direct |-> direct, gen |-> gen,
         residuals |-> callee(gen, top.root).frame.tokenset,
         cut |-> Len(commonprefix(gen))]

\* every residual is a token of the caller's set without its first n characters
shorter(R, S, n) == n >= 1 /\ \A r \in R : \E t \in S : Len(t) = Len(r) + n /\ Drop(t, n) = r

\* C38: index_tokenset terminates on every finite set of non-empty tokens:
\* every recursive call receives either strictly shorter residual tokens (the
\* call after a common prefix) or a strictly smaller set (a call of the loop,
\* whose set is one group of several), no call ever receives the empty token,
\* and every step of the call makes the characters left on its stack fewer.
C38_Terminates ==
    /\ [](\A i \in 1..Len(tasks["call"].stack) :
              << >> \notin tasks["call"].stack[i].tokenset)
    /\ [](tasks["call"].stack # << >> =>
              LET top == tasks["call"].stack[Len(tasks["call"].stack)] IN
              \A nextTok \in top.tokenset :
                  LET nc == nextcall(top, nextTok) IN
                  /\ << >> \notin nc.gen /\ << >> \notin nc.residuals
                  /\ shorter(nc.residuals, nc.gen, nc.cut)
                  /\ nc.direct \/ nc.gen \subseteq top.tokenset
                  /\ (~nc.direct /\ ~top.inloop) => nc.gen # top.tokenset)
    /\ [][weight(tasks'["call"].stack) < weight(tasks["call"].stack)]_vars

\* the loop of a call below the first has handed a group down and has more
C38_Witness ==
    /\ tasks["call"].stack # << >>
    /\ tasks["call"].stack[Len(tasks["call"].stack)].inloop
    /\ tasks["call"].stack[Len(tasks["call"].stack)].root # << >>
    /\ registered # {}

====
